---- MODULE Spec2Model ----
(***************************************************************************)
(* Citation store (one custom XML part of the presentation) and per-slide  *)
(* citation key lists (one tag per slide) of the Zotero PowerPoint add-in. *)
(*                                                                         *)
(* Persisted state is text: the XML part holds records whose fields are    *)
(* element texts, a slide tag holds one comma-joined string.  What the     *)
(* program computes with are the JavaScript values the XML parser returns  *)
(* for those texts; the two are kept apart so that save/load is a          *)
(* conversion and not the identity.                                        *)
(***************************************************************************)
EXTENDS Integers, Sequences, FiniteSets, TLC

VARIABLES
    customXmlParts, \* parts of the presentation with the citation namespace
    tags,           \* slide -> the ZOTERO_CITATIONS tag of that slide
    inflight,       \* tag writes dispatched by a sync nobody awaited
    pruning,        \* prune() runs started without await, still running
    last,           \* the call that completed last: arguments, result, state before
    shapes,         \* slide -> the citation text box of that slide
    calls,          \* caller -> the call it has issued and not awaited, step by step
    zoteroConfig,   \* ZoteroLibrary.config: the configuration in memory
    localStorage    \* the zotero-settings item of localStorage

vars == <<customXmlParts, tags, inflight, pruning, last, shapes, calls, zoteroConfig, localStorage>>

---------------------------------------------------------------------------
(* Bounds of the model *)

NumSlides    == 2   \* slides in the presentation
MaxStore     == 3   \* records in the persisted list
MaxSlideKeys == 3   \* keys on one slide
MaxPrunes    == 1   \* un-awaited prune() runs in progress at once
MaxLookup    == 2   \* keys in one getItem call
MaxInitKeys  == 1   \* keys on a slide when a run of store calls starts
NumCallers   == 2   \* calls issued without awaiting one another
MaxShown     == 2   \* records in the store of a presentation that is rendered

Slides == 1..NumSlides

\* The callers that issue calls without awaiting those of the others.
Callers == 1..NumCallers

---------------------------------------------------------------------------
(* JavaScript values of the fields: a string, or the number the parser made *)
(* of a number-like text.  s is what toString() gives.                      *)

Str(s) == [t |-> "string", s |-> s]
Num(s) == [t |-> "number", s |-> s]

\* The value of a property an object does not have: undefined.
Absent == [t |-> "undefined", s |-> ""]

\* Citation keys the callers use: non-empty strings without a comma.
Keys == {"X1", "42", "0"}

\* Texts that the parser's number conversion accepts, among the texts of the model.
NumberLike == {"0", "7", "007", "42"}

\* The decimal text of the number a number-like text denotes.
NumberText(text) == IF text = "007" THEN "7" ELSE text

\* XMLParser with parseTagValue: true: a number-like element text becomes a number.
ParseTagValue(text) ==
    IF text \in NumberLike THEN Num(NumberText(text)) ELSE Str(text)

\* JavaScript truthiness of a value: 0 and "" are falsy.
Truthy(v) == ~(v.s = "") /\ ~(v.t = "number" /\ v.s = "0")

\* a !== b for a field value a and a string b
StrictNotEqual(v, str) == ~(v.t = "string" /\ v.s = str)

---------------------------------------------------------------------------
(* Citation records *)

\* Records handed to the store by its callers (ZoteroItemData): key, title
\* and creators are strings and an array of creators, each creator here by
\* its lastName.
Citations ==
    { [key |-> "X1",  title |-> "Alpha", creators |-> <<"Smith">>],
      [key |-> "X1",  title |-> "007",   creators |-> <<>>],
      [key |-> "42",  title |-> "Beta",  creators |-> <<"Smith", "Doe">>],
      [key |-> "0",   title |-> "Delta", creators |-> <<"Smith">>] }

\* A creators field of a record in memory: an array, or undefined.
Array(items) == [defined |-> TRUE,  items |-> items]
Undefined    == [defined |-> FALSE, items |-> <<>>]

\* A creator in memory (ZoteroCreator): lastName and name, each a value or
\* undefined.
Creator(lastName, name) == [lastName |-> lastName, name |-> name]

\* The object a caller passes for citation c.
Item(c) ==
    [key      |-> Str(c.key),
     title    |-> Str(c.title),
     creators |-> Array([i \in 1..Len(c.creators) |-> Creator(Str(c.creators[i]), Absent)])]

\* What the parser returns for a repeatable child element: nothing when there is
\* none, the bare child when there is one, an array when there are several.
XmlChildren(children) ==
    IF Len(children) = 0 THEN [kind |-> "absent", items |-> <<>>]
    ELSE IF Len(children) = 1 THEN [kind |-> "single", items |-> children]
    ELSE [kind |-> "array", items |-> children]

\* What the parser returns for a child element that occurs at most once: its
\* parsed text, undefined when there is none.
ParseChild(texts) == IF texts = <<>> THEN Absent ELSE ParseTagValue(texts[1])

\* xmlParser.parse of one <creators> element.
ParseCreator(el) == Creator(ParseChild(el.lastName), ParseChild(el.name))

\* xmlParser.parse of one <citation> element.
ParseCitation(el) ==
    [key      |-> ParseTagValue(el.key),
     title    |-> ParseTagValue(el.title),
     creators |-> XmlChildren([i \in 1..Len(el.creators) |-> ParseCreator(el.creators[i])])]

\* citation-store.ts 172-177: a truthy key that is no string is replaced by its
\* toString(); a creators field that is present and no array is wrapped.
NormalizeCitation(parsed) ==
    [key      |-> IF Truthy(parsed.key) /\ parsed.key.t # "string"
                  THEN Str(parsed.key.s) ELSE parsed.key,
     title    |-> parsed.title,
     creators |-> IF parsed.creators.kind = "absent" THEN Undefined
                  ELSE Array(parsed.creators.items)]

\* getCitationStoreXml: the record list of a part, as the program sees it.
\* The list itself is coerced to an array whatever the number of records.
GetCitationStoreXml(part) ==
    LET parsed == XmlChildren([i \in 1..Len(part) |-> ParseCitation(part[i])])
    IN  [i \in 1..Len(parsed.items) |-> NormalizeCitation(parsed.items[i])]

\* xmlBuilder.build of a property: no element for undefined, else one element
\* holding the text of the value.
BuildChild(v) == IF v.t = "undefined" THEN <<>> ELSE <<v.s>>

\* xmlBuilder.build of one creator.
BuildCreator(creator) ==
    [lastName |-> BuildChild(creator.lastName), name |-> BuildChild(creator.name)]

\* xmlBuilder.build of one record: every value is written as its text, an
\* undefined or empty creators field writes no element.
BuildCitation(rec) ==
    [key      |-> rec.key.s,
     title    |-> rec.title.s,
     creators |-> [i \in 1..Len(rec.creators.items) |-> BuildCreator(rec.creators.items[i])]]

\* saveCitationStoreXml: the text of the part for a record list.
SaveCitationStoreXml(list) == [i \in 1..Len(list) |-> BuildCitation(list[i])]

\* getOrCreateCustomXmlPart: the first part with the citation namespace; an
\* empty one is added when there is none.
GetOrCreateCustomXmlPart(parts) == IF parts = <<>> THEN << <<>> >> ELSE parts

---------------------------------------------------------------------------
(* Slide tags.  A tag value is a string; it is kept as the sequence of its  *)
(* pieces, each a key or the separator ",", so that join and split are      *)
(* computed and the empty string is the empty sequence.                     *)

NullObject == [isNullObject |-> TRUE,  value |-> <<>>]
Tag(value) == [isNullObject |-> FALSE, value |-> value]

\* Array.prototype.join(","): an empty key contributes no text.
RECURSIVE Join(_)
Join(keys) ==
    IF keys = <<>> THEN <<>>
    ELSE LET head == IF keys[1] = "" THEN <<>> ELSE <<keys[1]>>
         IN  IF Len(keys) = 1 THEN head
             ELSE head \o <<",">> \o Join(Tail(keys))

\* String.prototype.split(","): one element more than there are separators,
\* also for the empty string, which gives one empty element.
RECURSIVE SplitFrom(_, _)
SplitFrom(value, current) ==
    IF value = <<>> THEN <<current>>
    ELSE IF value[1] = "," THEN <<current>> \o SplitFrom(Tail(value), "")
    ELSE SplitFrom(Tail(value), value[1])

Split(value) == SplitFrom(value, "")

\* The host executes request batches in the order they were dispatched: a batch
\* dispatched by an un-awaited sync is applied before any later batch.
RECURSIVE Drain(_, _)
Drain(t, writes) ==
    IF writes = <<>> THEN t
    ELSE Drain([t EXCEPT ![writes[1].slide] = Tag(writes[1].value)], Tail(writes))

\* getCitationKeysOnSlide without the test for an empty value.
CitationKeysOfUnguarded(tag) ==
    IF tag.isNullObject THEN <<>> ELSE Split(tag.value)

\* getCitationKeysOnSlide on a tag as loaded.
CitationKeysOf(tag) ==
    IF tag.isNullObject \/ tag.value = <<>> THEN <<>> ELSE Split(tag.value)

Includes(seq, x) == \E i \in 1..Len(seq) : seq[i] = x

\* splice(index) without a count: everything from the first occurrence on goes.
SpliceToEnd(seq, x) ==
    LET idx == CHOOSE i \in 1..Len(seq) : seq[i] = x /\ \A j \in 1..(i - 1) : seq[j] # x
    IN  SubSeq(seq, 1, idx - 1)

\* indexOf followed by splice(index, 1): the first occurrence is taken out.
Splice(seq, x) ==
    LET idx == CHOOSE i \in 1..Len(seq) : seq[i] = x /\ \A j \in 1..(i - 1) : seq[j] # x
    IN  [i \in 1..(Len(seq) - 1) |-> IF i < idx THEN seq[i] ELSE seq[i + 1]]

---------------------------------------------------------------------------
(* ZoteroLibrary configuration.  A value that may be anything (a parsed JSON *)
(* text) carries its kind; the properties of one that is no object read as  *)
(* undefined.                                                               *)

\* The value null.
NullValue == [t |-> "null", s |-> ""]

\* An entry of citationFormats: an object with what its format and delimiter
\* properties hold, or a value of another kind.
FormatSpec(format, delimiter) == [kind |-> "object", format |-> format, delimiter |-> delimiter]
NotAnObject(kind) == [kind |-> kind, format |-> Absent, delimiter |-> Absent]

\* The citationFormats property: missing, or a value of some kind; entries
\* are the properties of one that is an object, in their order.
FormatsMissing == [kind |-> "missing", entries |-> <<>>]
FormatsOf(kind, entries) == [kind |-> kind, entries |-> entries]
Entry(name, value) == [name |-> name, value |-> value]

\* Values of selectedCitationFormat that callers pass: none, the name of the
\* format selected by default, another name.
SelectedInputs == {Absent, Str("ieee"), Str("mine")}

\* DEFAULT_CONFIG.citationFormats, 36-57: apa, mla, chicago, ieee and custom,
\* each with a template and the delimiter ";  ".
DefaultFormats ==
    FormatsOf("object",
              <<Entry("apa",     FormatSpec(Str("{creator} ({year}). {title}."), Str(";  "))),
                Entry("mla",     FormatSpec(Str("{creator}. {title}."), Str(";  "))),
                Entry("chicago", FormatSpec(Str("{creator}. {title}. ({year})"), Str(";  "))),
                Entry("ieee",    FormatSpec(Str("{creator}, {title}, {year}."), Str(";  "))),
                Entry("custom",  FormatSpec(Str("<b>[{#}] {creator}</b>, {year}"), Str(";  ")))>>)

\* Values of citationFormats that callers pass.
CitationFormatsInputs ==
    { FormatsMissing,
      FormatsOf("undefined", <<>>),
      FormatsOf("null", <<>>),
      FormatsOf("array", <<>>),
      FormatsOf("object", <<>>),
      FormatsOf("object", <<Entry("ieee", FormatSpec(Str("{title}"), Str("; ")))>>),
      FormatsOf("object", <<Entry("ieee", FormatSpec(Str("{title}"), Absent))>>),
      FormatsOf("object", <<Entry("ieee", NotAnObject("string"))>>),
      FormatsOf("object", <<Entry("ieee", NotAnObject("null"))>>),
      FormatsOf("object", <<Entry("ieee", FormatSpec(Absent, Str("; ")))>>),
      FormatsOf("object", <<Entry("ieee", FormatSpec(Num("5"), Absent))>>),
      FormatsOf("object", <<Entry("ieee", FormatSpec(Str("{title}"), Num("5")))>>),
      FormatsOf("object", <<Entry("ieee", FormatSpec(Str("{title}"), NullValue))>>),
      FormatsOf("object", <<Entry("ieee", FormatSpec(Str("{title}"), Absent)),
                            Entry("mine", FormatSpec(Absent, Absent))>>) }

\* A ZoteroConfig in memory; userId -1 stands for a userId that is missing.
\* selectedCitationFormat is missing unless Selecting sets it.
Config(apiKey, userId, citationFormats) ==
    [defined |-> TRUE, apiKey |-> apiKey, userId |-> userId,
     citationFormats |-> citationFormats, selectedCitationFormat |-> Absent]

Selecting(c, selected) == [c EXCEPT !.selectedCitationFormat = selected]

\* this.config before it is set: undefined.
NoConfig ==
    [defined |-> FALSE, apiKey |-> Absent, userId |-> -1, citationFormats |-> FormatsMissing,
     selectedCitationFormat |-> Absent]

\* localStorage without the settings item, and with it.
NoItem == [present |-> FALSE, json |-> NoConfig]
Stored(json) == [present |-> TRUE, json |-> json]

---------------------------------------------------------------------------
(* The record of the call that completed last *)

Null     == [isNull |-> TRUE,  key |-> Str(""), title |-> Str(""), creators |-> Undefined]
Some(r)  == [isNull |-> FALSE, key |-> r.key, title |-> r.title, creators |-> r.creators]

NoCall ==
    [op    |-> "none",
     slide |-> 0,            \* the slide of a slide call
     key   |-> "",           \* the key of a call that takes one key
     keys  |-> <<>>,         \* the keys of a call that takes several
     item  |-> Null,         \* the record of add
     ok    |-> FALSE,        \* a boolean result
     count |-> 0,            \* a numeric result
     list  |-> <<>>,         \* a result that is a list of keys
     perm  |-> "no",         \* updateCitationKeysOrder: keys is a permutation of the
                             \* keys found ("same" order or "moved"), or is not ("no")
     items |-> <<>>,         \* a result that is a list of records or null
     parts |-> <<>>,         \* a store call: the parts it found
     tag   |-> NullObject,   \* a slide call: the tag it found on its slide
     prev  |-> [op |-> "none", count |-> 0],
                             \* prune: the call completed before it and its count;
                             \* add: whether clearStore completed before it
     outcome  |-> "resolved",   \* how the promise of the call settled
     failed   |-> "",           \* the request of the call that the host rejected
     citationFormats |-> FormatsMissing,
                                \* setConfig, updateConfig: the formats to be set
     spec     |-> NotAnObject("undefined"),
                                \* getCitationFormat: the value returned
     writes   |-> 0,            \* the writes the call attempted
     format   |-> <<>>,         \* format, showCitationsOnSlide: the template
     delimiter |-> "",          \* showCitationsOnSlide: the delimiter of the formatter
     index    |-> -1,           \* format: extras.index, -1 when there is none
     startIndex |-> -1,         \* format: extras.startIndex, -1 when there is none
     fields   |-> [date |-> Absent, publicationTitle |-> Absent,
                   journalAbbreviation |-> Absent],
                                \* format: the other fields of the record
     lookup   |-> Absent,       \* format: the answer of the abbreviation service
     segments |-> <<>>,         \* format, showCitationsOnSlide: the segments made
     rendered |-> <<>>]         \* showCitationsOnSlide: the keys of the records formatted

\* A slide without citation text box, and a citation text box: its text and
\* the runs of it that were given a font.
NoShape == [exists |-> FALSE, text |-> <<>>, runs |-> <<>>]
TextBox(text, runs) == [exists |-> TRUE, text |-> text, runs |-> runs]

\* A caller that has no call in progress.  A call in progress keeps its
\* arguments and what it has read so far.
Idle ==
    [op           |-> "none",
     pc           |-> "idle",
     item         |-> Null,     \* add: the record; a scenario: the record it inserts
     key          |-> "",       \* addCitationKeyToSlide: the key
     keys         |-> <<>>,     \* getItem: the keys
     slide        |-> 0,        \* the slide of a slide call
     found        |-> FALSE,    \* getOrCreateCustomXmlPart found a part
     part         |-> 0,        \* the place of the part the call works on
     storeXml     |-> <<>>,     \* the record list the call loaded
     citationKeys |-> <<>>,     \* the keys of the slide the call read
     items        |-> <<>>,     \* getAll, getItem: the result
     wrote        |-> <<>>,     \* the block or tag value the call wrote
     turn         |-> 0]        \* the place of its write among the writes

\* The tags as the next request finds them.
Synced == Drain(tags, inflight)


Init ==
    /\ customXmlParts = <<>>
    /\ tags = [s \in Slides |-> NullObject]
    /\ inflight = <<>>
    /\ pruning = <<>>
    /\ last = NoCall
    /\ shapes = [s \in Slides |-> NoShape]
    /\ calls = [p \in Callers |-> Idle]
    /\ zoteroConfig = NoConfig
    /\ localStorage = NoItem

---------------------------------------------------------------------------
(* CitationStore *)

\* add keeping only the new record.
AddCitationAlone(storeXml, citation) == <<citation>>

\* add, 211-216: the records with another key, then the new record.
AddCitation(storeXml, citation) ==
    LET Other(existing) == StrictNotEqual(existing.key, citation.key.s)
    IN  Append(SelectSeq(storeXml, Other), citation)

\* remove, 286
RemoveCitation(storeXml, key) ==
    LET Other(cit) == StrictNotEqual(cit.key, key)
    IN  SelectSeq(storeXml, Other)

\* prune, 327-340: the keys of the tags of all slides.
UsedKeys(t) ==
    UNION { {CitationKeysOf(t[s])[i] : i \in 1..Len(CitationKeysOf(t[s]))} : s \in Slides }

\* prune, 345-347: usedKeys is a Set of strings, has() of a number is false.
PruneCitations(storeXml, usedKeys) ==
    LET Used(cit) == cit.key.t = "string" /\ cit.key.s \in usedKeys
    IN  SelectSeq(storeXml, Used)

\* new Map(list.map(c => [c.key, c])): one entry per key, at the place of the
\* first record with that key, holding the last record with that key.
MapOf(storeXml) ==
    LET First(i) == \A j \in 1..(i - 1) : storeXml[j].key # storeXml[i].key
        LastOf(i) == CHOOSE j \in i..Len(storeXml) :
                        /\ storeXml[j].key = storeXml[i].key
                        /\ \A k \in (j + 1)..Len(storeXml) : storeXml[k].key # storeXml[i].key
        firsts == SelectSeq([i \in 1..Len(storeXml) |-> i], First)
    IN  [n \in 1..Len(firsts) |-> storeXml[LastOf(firsts[n])]]

\* items.get(k) ?? null
MapGet(map, k) ==
    IF \E i \in 1..Len(map) : map[i].key = Str(k)
    THEN Some(map[CHOOSE i \in 1..Len(map) : map[i].key = Str(k)])
    ELSE Null

Add(c) ==
    LET parts    == GetOrCreateCustomXmlPart(customXmlParts)
        storeXml == AddCitation(GetCitationStoreXml(parts[1]), Item(c))
    IN  /\ Len(storeXml) <= MaxStore
        /\ customXmlParts' = [parts EXCEPT ![1] = SaveCitationStoreXml(storeXml)]
        /\ tags' = Synced
        /\ inflight' = <<>>
        /\ UNCHANGED pruning
        /\ UNCHANGED <<shapes, calls, zoteroConfig, localStorage>>
        /\ last' = [NoCall EXCEPT !.op = "add", !.key = c.key, !.item = Some(Item(c)),
                                  !.parts = customXmlParts, !.writes = 1,
                                  !.prev = IF last.op = "clearStore"
                                           THEN [op |-> "clearStore", count |-> 0]
                                           ELSE NoCall.prev]

GetAll ==
    LET parts == GetOrCreateCustomXmlPart(customXmlParts)
    IN  /\ customXmlParts' = parts
        /\ tags' = Synced
        /\ inflight' = <<>>
        /\ UNCHANGED pruning
        /\ UNCHANGED <<shapes, calls, zoteroConfig, localStorage>>
        /\ last' = [NoCall EXCEPT !.op = "getAll",
                                  !.items = MapOf(GetCitationStoreXml(parts[1])),
                                  !.parts = customXmlParts]

LookupKeys == UNION { [1..n -> Keys] : n \in 1..MaxLookup }

GetItem(keys) ==
    LET parts == GetOrCreateCustomXmlPart(customXmlParts)
        map   == MapOf(GetCitationStoreXml(parts[1]))
    IN  /\ customXmlParts' = parts
        /\ tags' = Synced
        /\ inflight' = <<>>
        /\ UNCHANGED pruning
        /\ UNCHANGED <<shapes, calls, zoteroConfig, localStorage>>
        /\ last' = [NoCall EXCEPT !.op = "getItem", !.keys = keys,
                                  !.items = [i \in 1..Len(keys) |-> MapGet(map, keys[i])],
                                  !.parts = customXmlParts]

Remove(key) ==
    LET parts    == GetOrCreateCustomXmlPart(customXmlParts)
        original == GetCitationStoreXml(parts[1])
        storeXml == RemoveCitation(original, key)
        found    == Len(storeXml) < Len(original)
    IN  /\ customXmlParts' = IF found THEN [parts EXCEPT ![1] = SaveCitationStoreXml(storeXml)]
                             ELSE parts
        /\ tags' = Synced
        /\ inflight' = <<>>
        /\ UNCHANGED pruning
        /\ UNCHANGED <<shapes, calls, zoteroConfig, localStorage>>
        /\ last' = [NoCall EXCEPT !.op = "remove", !.key = key, !.ok = found,
                                  !.parts = customXmlParts,
                                  !.writes = IF found THEN 1 ELSE 0]

ClearStore ==
    LET parts == GetOrCreateCustomXmlPart(customXmlParts)
    IN  /\ customXmlParts' = Tail(parts)
        /\ tags' = Synced
        /\ inflight' = <<>>
        /\ UNCHANGED pruning
        /\ UNCHANGED <<shapes, calls, zoteroConfig, localStorage>>
        /\ last' = [NoCall EXCEPT !.op = "clearStore", !.parts = customXmlParts]

\* prune returning the number of records it loaded.
PruneCountLoaded(original, storeXml) == Len(original)

\* prune, 344 and 349: originalCount - storeXml.citations.citation.length
PruneCount(original, storeXml) == Len(original) - Len(storeXml)

Prune ==
    LET usedKeys == UsedKeys(Synced)
        parts    == GetOrCreateCustomXmlPart(customXmlParts)
        original == GetCitationStoreXml(parts[1])
        storeXml == PruneCitations(original, usedKeys)
    IN  /\ customXmlParts' = [parts EXCEPT ![1] = SaveCitationStoreXml(storeXml)]
        /\ tags' = Synced
        /\ inflight' = <<>>
        /\ UNCHANGED pruning
        /\ UNCHANGED <<shapes, calls, zoteroConfig, localStorage>>
        /\ last' = [NoCall EXCEPT !.op = "prune", !.count = PruneCount(original, storeXml),
                                  !.parts = customXmlParts, !.writes = 1,
                                  !.prev = [op |-> last.op, count |-> last.count]]

---------------------------------------------------------------------------
(* Citation keys of a slide *)

\* Key lists a caller passes to updateCitationKeysOrder: the task pane builds
\* them from the records shown for the slide, one entry per key.
OrderedKeys ==
    { q \in UNION { [1..n -> Keys] : n \in 0..MaxSlideKeys } :
        \A i, j \in 1..Len(q) : q[i] = q[j] => i = j }

\* addCitationKeyToSlide pushing the key without looking for it.
KeysWithAddedUnchecked(citationKeys, citationKey) ==
    [write |-> TRUE, keys |-> Append(citationKeys, citationKey)]

\* addCitationKeyToSlide, 395-398: the list to write, when there is one to write.
KeysWithAdded(citationKeys, citationKey) ==
    IF ~Includes(citationKeys, citationKey)
    THEN [write |-> TRUE,  keys |-> Append(citationKeys, citationKey)]
    ELSE [write |-> FALSE, keys |-> citationKeys]

\* removeCitationFromSlide, 413-417
KeysWithRemoved(citationKeys, citationKey) ==
    IF ~Includes(citationKeys, citationKey)
    THEN [write |-> FALSE, keys |-> citationKeys]
    ELSE [write |-> TRUE,  keys |-> Splice(citationKeys, citationKey)]

\* tags.add(CITATION_TAG_KEY, keys.join(","))
TagWrite(s, keys) == [slide |-> s, value |-> Join(keys)]

GetCitationKeysOnSlide(s) ==
    /\ tags' = Synced
    /\ inflight' = <<>>
    /\ UNCHANGED <<customXmlParts, pruning>>
    /\ UNCHANGED <<shapes, calls, zoteroConfig, localStorage>>
    /\ last' = [NoCall EXCEPT !.op = "getCitationKeysOnSlide", !.slide = s,
                              !.list = CitationKeysOf(Synced[s]), !.tag = Synced[s]]

\* The tag is set and the sync that sends it is not awaited: the call returns
\* with the write dispatched.
AddCitationKeyToSlide(citationKey, s) ==
    LET added == KeysWithAdded(CitationKeysOf(Synced[s]), citationKey)
    IN  /\ Len(added.keys) <= MaxSlideKeys
        /\ tags' = Synced
        /\ inflight' = IF added.write THEN <<TagWrite(s, added.keys)>> ELSE <<>>
        /\ UNCHANGED <<customXmlParts, pruning>>
        /\ UNCHANGED <<shapes, calls, zoteroConfig, localStorage>>
        /\ last' = [NoCall EXCEPT !.op = "addCitationKeyToSlide", !.slide = s,
                                  !.key = citationKey, !.tag = Synced[s]]

\* As above for the tag; prune() is then started and not awaited.
RemoveCitationFromSlide(citationKey, s) ==
    LET removed == KeysWithRemoved(CitationKeysOf(Synced[s]), citationKey)
    IN  /\ removed.write => Len(pruning) < MaxPrunes
        /\ tags' = Synced
        /\ inflight' = IF removed.write THEN <<TagWrite(s, removed.keys)>> ELSE <<>>
        /\ pruning' = IF removed.write
                      THEN Append(pruning, [pc |-> "tags", usedKeys |-> {}])
                      ELSE pruning
        /\ UNCHANGED customXmlParts
        /\ UNCHANGED <<shapes, calls, zoteroConfig, localStorage>>
        /\ last' = [NoCall EXCEPT !.op = "removeCitationFromSlide", !.slide = s,
                                  !.key = citationKey, !.ok = removed.write,
                                  !.tag = Synced[s]]

\* updateCitationKeysOrder writing back the keys it found.
KeysReorderedStale(citationKeys, orderedKeys) == citationKeys

\* updateCitationKeysOrder, 487: the keys to write; the keys on the slide are
\* not read.
KeysReordered(citationKeys, orderedKeys) == orderedKeys

IsPermutation(p, q) ==
    /\ Len(p) = Len(q)
    /\ \A k \in Keys : Cardinality({i \in 1..Len(p) : p[i] = k})
                       = Cardinality({i \in 1..Len(q) : q[i] = k})

UpdateCitationKeysOrder(orderedKeys, s) ==
    LET found == CitationKeysOf(Synced[s])
    IN  /\ tags' = [Synced EXCEPT ![s] = Tag(Join(KeysReordered(found, orderedKeys)))]
        /\ inflight' = <<>>
        /\ UNCHANGED <<customXmlParts, pruning>>
        /\ UNCHANGED <<shapes, calls, zoteroConfig, localStorage>>
        /\ last' = [NoCall EXCEPT !.op = "updateCitationKeysOrder", !.slide = s,
                                  !.keys = orderedKeys,
                                  !.perm = IF ~IsPermutation(orderedKeys, found) THEN "no"
                                           ELSE IF orderedKeys = found THEN "same"
                                           ELSE "moved"]

\* The host applies a dispatched tag write.
Land ==
    /\ inflight # <<>>
    /\ tags' = Drain(tags, <<Head(inflight)>>)
    /\ inflight' = Tail(inflight)
    /\ UNCHANGED <<customXmlParts, pruning, last, shapes, calls, zoteroConfig, localStorage>>

\* An un-awaited prune(), 322-340: the tags of all slides are read.
PruneReadTags(i) ==
    /\ i \in 1..Len(pruning)
    /\ pruning[i].pc = "tags"
    /\ pruning' = [pruning EXCEPT ![i] = [pc |-> "store", usedKeys |-> UsedKeys(Synced)]]
    /\ tags' = Synced
    /\ inflight' = <<>>
    /\ UNCHANGED customXmlParts
    /\ UNCHANGED <<shapes, calls, zoteroConfig, localStorage>>
    /\ last' = [NoCall EXCEPT !.op = "pruneReadTags"]

\* An un-awaited prune(), 342-349: the store is loaded, filtered and saved.
PruneSweep(i) ==
    /\ i \in 1..Len(pruning)
    /\ pruning[i].pc = "store"
    /\ LET parts    == GetOrCreateCustomXmlPart(customXmlParts)
           storeXml == PruneCitations(GetCitationStoreXml(parts[1]), pruning[i].usedKeys)
       IN  customXmlParts' = [parts EXCEPT ![1] = SaveCitationStoreXml(storeXml)]
    /\ pruning' = [j \in 1..(Len(pruning) - 1) |-> IF j < i THEN pruning[j] ELSE pruning[j + 1]]
    /\ tags' = Synced
    /\ inflight' = <<>>
    /\ UNCHANGED <<shapes, calls, zoteroConfig, localStorage>>
    /\ last' = [NoCall EXCEPT !.op = "pruneSweep"]

---------------------------------------------------------------------------
(* CitationFormatter.  A string is kept as the sequence of its pieces: a    *)
(* placeholder, a tag and a run of other text are one piece each, so that   *)
(* replace, concatenation and the scan for tags are computed on it.         *)

\* Records shown on slides: those of Citations and one with three creators.
ShownCitations ==
    Citations \cup { [key |-> "X1", title |-> "Gamma", creators |-> <<"Lee", "Kim", "Roe">>] }

\* The text of a string that is one piece, none for the empty string.
Text(str) == IF str = "" THEN <<>> ELSE <<str>>

\* CitationFormat configurations: a template and, when set, a delimiter.
Formats ==
    { [format |-> <<"{title}">>,                                      delimiter |-> Undefined],
      [format |-> <<"{creator}">>,                                    delimiter |-> Undefined],
      [format |-> <<"{creator}", ", ", "<i>", "{title}", "</i>">>,    delimiter |-> Array(<<"; ">>)],
      [format |-> <<"<b>", "[", "{#}", "] ", "{key}", "</b>", ": ", "{title}">>,
                                                                      delimiter |-> Undefined] }

\* constructor, 157: delimiter ?? ";  "
DelimiterOf(config) ==
    IF config.delimiter.defined THEN config.delimiter.items[1] ELSE ";  "

\* The outcome of a function that may throw.
Threw == [threw |-> TRUE, text |-> <<>>]
Returned(text) == [threw |-> FALSE, text |-> text]

\* creators[index], index counted from 0: undefined past the end of the array.
CreatorAt(items, index) ==
    IF index + 1 <= Len(items) THEN [defined |-> TRUE,  creator |-> items[index + 1]]
    ELSE [defined |-> FALSE, creator |-> Creator(Absent, Absent)]

\* getDisplayName returning lastName, else the fallback.
GetDisplayNameLast(element, fallback) ==
    IF ~element.defined THEN Threw
    ELSE IF element.creator.lastName.t # "undefined"
         THEN Returned(Text(element.creator.lastName.s))
    ELSE Returned(Text(fallback))

\* getDisplayName, 173-175: creator.lastName ?? creator.name ?? fallback;
\* reading lastName of undefined throws.
GetDisplayName(element, fallback) ==
    IF ~element.defined THEN Threw
    ELSE IF element.creator.lastName.t # "undefined"
         THEN Returned(Text(element.creator.lastName.s))
    ELSE IF element.creator.name.t # "undefined"
         THEN Returned(Text(element.creator.name.s))
    ELSE Returned(Text(fallback))

\* getCreator, 184-196: creators.length of undefined throws.
GetCreator(creators, fallback) ==
    IF ~creators.defined THEN Threw
    ELSE IF Len(creators.items) = 0 THEN Returned(Text(fallback))
    ELSE IF Len(creators.items) = 1
         THEN LET first  == GetDisplayName(CreatorAt(creators.items, 0), fallback)
                  second == GetDisplayName(CreatorAt(creators.items, 1), fallback)
              IN  IF first.threw \/ second.threw THEN Threw
                  ELSE Returned(first.text \o <<" and ">> \o second.text)
    ELSE LET first == GetDisplayName(CreatorAt(creators.items, 0), fallback)
         IN  IF first.threw THEN Threw ELSE Returned(first.text \o <<" et al.">>)

\* String.prototype.replace with a string pattern: the first occurrence only.
ReplaceFirst(text, placeholder, value) ==
    IF ~Includes(text, placeholder) THEN text
    ELSE LET idx == CHOOSE i \in 1..Len(text) :
                        text[i] = placeholder /\ \A j \in 1..(i - 1) : text[j] # placeholder
         IN  SubSeq(text, 1, idx - 1) \o value \o SubSeq(text, idx + 1, Len(text))

\* value || fallback for a field of a record in memory
OrFallback(v, fallback) == IF Truthy(v) THEN Text(v.s) ELSE Text(fallback)

\* citation[name]: undefined for a property the record does not have.  The
\* records of the store carry key, title and creators.
Field(citation, name) == IF name \in DOMAIN citation THEN citation[name] ELSE Absent

\* The texts a date has in the model, and date.split("-")[0] of each.
DateTexts == {"2020-01-01", "2021"}
SplitFirst(text) == IF text = "2020-01-01" THEN "2020" ELSE text

\* format, 202-205: the year of the record.
YearOf(citation) ==
    LET date == Field(citation, "date")
    IN  IF Truthy(date) /\ date.t = "string" THEN Text(SplitFirst(date.s))
        ELSE OrFallback(date, "n.d.")

\* What the abbreviation service can answer for a publication title: an
\* abbreviation, or nothing.
LookupResults == {Absent, Str("Nat. Commun.")}

\* getJournalAbbreviation without the service.
GetJournalAbbreviationOwn(citation, found) ==
    LET journalAbbreviation == Field(citation, "journalAbbreviation")
        publicationTitle    == Field(citation, "publicationTitle")
    IN  IF Truthy(journalAbbreviation) /\ journalAbbreviation # publicationTitle
        THEN journalAbbreviation
        ELSE IF ~Truthy(publicationTitle) THEN Absent
        ELSE publicationTitle

\* getJournalAbbreviation, 160-171; found is what the service answers for the
\* publication title of the record.  null and undefined are one value here.
GetJournalAbbreviation(citation, found) ==
    LET journalAbbreviation == Field(citation, "journalAbbreviation")
        publicationTitle    == Field(citation, "publicationTitle")
    IN  IF Truthy(journalAbbreviation) /\ journalAbbreviation # publicationTitle
        THEN journalAbbreviation
        ELSE IF ~Truthy(publicationTitle) THEN Absent
        ELSE IF found.t # "undefined" THEN found
        ELSE publicationTitle

\* {#} numbered from the index as it is.
NumberOfZeroBased(index, startIndex) ==
    IF index # -1
    THEN Text(ToString(index + (IF startIndex # -1 THEN startIndex ELSE 0)))
    ELSE Text("#")

\* format, 240: the number for {#}; -1 stands for an index or a startIndex
\* that is not passed.
NumberOf(index, startIndex) ==
    IF index # -1
    THEN Text(ToString(index + (IF startIndex # -1 THEN startIndex ELSE 0) + 1))
    ELSE Text("#")

\* format, 210-241: the placeholders in the order they are replaced, each with
\* its value.
Replacements(citation, creator, journalAbbreviation, index, startIndex) ==
    << <<"{creator}",          IF creator = <<>> THEN Text("Unknown") ELSE creator>>,
       <<"{title}",            OrFallback(Field(citation, "title"), "No Title")>>,
       <<"{key}",              Text(citation.key.s)>>,
       <<"{itemType}",         OrFallback(Field(citation, "itemType"), "Unknown Type")>>,
       <<"{abstractNote}",     OrFallback(Field(citation, "abstractNote"), "No Abstract")>>,
       <<"{publicationTitle}", OrFallback(Field(citation, "publicationTitle"), "No Publication")>>,
       <<"{volume}",           OrFallback(Field(citation, "volume"), "No Volume")>>,
       <<"{issue}",            OrFallback(Field(citation, "issue"), "No Issue")>>,
       <<"{pages}",            OrFallback(Field(citation, "pages"), "No Pages")>>,
       <<"{publisher}",        OrFallback(Field(citation, "publisher"), "No Publisher")>>,
       <<"{DOI}",              OrFallback(Field(citation, "DOI"), "No DOI")>>,
       <<"{ISBN}",             OrFallback(Field(citation, "ISBN"), "No ISBN")>>,
       <<"{URL}",              OrFallback(Field(citation, "url"), "No URL")>>,
       <<"{accessDate}",       OrFallback(Field(citation, "accessDate"), "No Access Date")>>,
       <<"{archive}",          OrFallback(Field(citation, "archive"), "No Archive")>>,
       <<"{archiveLocation}",  OrFallback(Field(citation, "archiveLocation"), "No Archive Location")>>,
       <<"{libraryCatalog}",   OrFallback(Field(citation, "libraryCatalog"), "No Library Catalog")>>,
       <<"{callNumber}",       OrFallback(Field(citation, "callNumber"), "No Call Number")>>,
       <<"{rights}",           OrFallback(Field(citation, "rights"), "No Rights Info")>>,
       <<"{date}",             OrFallback(Field(citation, "date"), "No Date")>>,
       <<"{extra}",            OrFallback(Field(citation, "extra"), "No Extra Info")>>,
       <<"{series}",           OrFallback(Field(citation, "series"), "No Series")>>,
       <<"{seriesNumber}",     OrFallback(Field(citation, "seriesNumber"), "No Series Number")>>,
       <<"{institution}",      OrFallback(Field(citation, "institution"), "No Institution")>>,
       <<"{department}",       OrFallback(Field(citation, "department"), "No Department")>>,
       <<"{year}",             YearOf(citation)>>,
       <<"{journalAbbreviation}", Text(journalAbbreviation.s)>>,
       <<"{#}",                NumberOf(index, startIndex)>> >>

RECURSIVE ReplaceEach(_, _)
ReplaceEach(text, replacements) ==
    IF replacements = <<>> THEN text
    ELSE ReplaceEach(ReplaceFirst(text, replacements[1][1], replacements[1][2]),
                     Tail(replacements))

\* A segment whose italic flag follows its bold flag.
FormattedTextBold(text, bold, italic) == [text |-> text, bold |-> bold, italic |-> bold]

\* FormattedText, 303-307
FormattedText(text, bold, italic) == [text |-> text, bold |-> bold, italic |-> italic]

\* The matches of /<(\/?)([bi])>/g
FormatTags == {"<b>", "</b>", "<i>", "</i>"}

\* parseFormattedText, 257-293, from the current index on: textContent is the
\* text since the last tag.
RECURSIVE ParseFrom(_, _, _, _)
ParseFrom(text, textContent, isBold, isItalic) ==
    LET pushed == IF textContent = <<>> THEN <<>>
                  ELSE <<FormattedText(textContent, isBold, isItalic)>>
    IN  IF text = <<>> THEN pushed
        ELSE IF Head(text) \in FormatTags
             THEN pushed \o ParseFrom(Tail(text), <<>>,
                                      IF Head(text) = "<b>" THEN TRUE
                                      ELSE IF Head(text) = "</b>" THEN FALSE ELSE isBold,
                                      IF Head(text) = "<i>" THEN TRUE
                                      ELSE IF Head(text) = "</i>" THEN FALSE ELSE isItalic)
        ELSE ParseFrom(Tail(text), Append(textContent, Head(text)), isBold, isItalic)

\* parseFormattedText returning its input as one plain segment.
ParseFormattedTextWhole(text) ==
    IF text = <<>> THEN <<>> ELSE <<FormattedText(text, FALSE, FALSE)>>

ParseFormattedText(text) == ParseFrom(text, <<>>, FALSE, FALSE)

\* format, 198-245: throws when getCreator does, else the segments.  found is
\* the answer of the abbreviation service.
Format(config, citation, index, startIndex, found) ==
    LET creator == GetCreator(citation.creators, "Unknown")
        journalAbbreviation == GetJournalAbbreviation(citation, found)
    IN  IF creator.threw THEN [threw |-> TRUE, segments |-> <<>>]
        ELSE [threw    |-> FALSE,
              segments |-> ParseFormattedText(
                               ReplaceEach(config.format,
                                           Replacements(citation, creator.text,
                                                        journalAbbreviation,
                                                        index, startIndex)))]

\* Records whose creators have a lastName, a name, or neither.
CreatorLists ==
    { <<Creator(Absent, Str("WHO"))>>,
      <<Creator(Absent, Str("WHO")), Creator(Str("Doe"), Absent)>>,
      <<Creator(Absent, Str("WHO")), Creator(Str("Doe"), Absent), Creator(Str("Roe"), Absent)>>,
      <<Creator(Absent, Absent), Creator(Str("Doe"), Absent), Creator(Str("Roe"), Absent)>>,
      <<Creator(Str("Lee"), Str("Lee Group")), Creator(Absent, Absent),
        Creator(Str("Roe"), Absent), Creator(Str("Poe"), Absent)>> }

\* The date, publicationTitle and journalAbbreviation of journal articles.
ArticleFields ==
    { [date |-> Str("2020-01-01"), publicationTitle |-> Str("Nature Communications"),
       journalAbbreviation |-> Str("Nat Commun")],
      [date |-> Str("2021"), publicationTitle |-> Str("Nature Communications"),
       journalAbbreviation |-> Str("Nature Communications")],
      [date |-> Num("2021"), publicationTitle |-> Str("Nature Communications"),
       journalAbbreviation |-> Absent],
      [date |-> Absent, publicationTitle |-> Str("Nature Communications"),
       journalAbbreviation |-> Str("")],
      [date |-> Str(""), publicationTitle |-> Absent,
       journalAbbreviation |-> Str("Nat Commun")],
      [date |-> Absent, publicationTitle |-> Str(""),
       journalAbbreviation |-> Absent],
      [date |-> Absent, publicationTitle |-> Absent,
       journalAbbreviation |-> Absent] }

\* A journal article as a caller holds it.
Article(fields) ==
    [key      |-> Str("X1"),
     title    |-> Str("Foo"),
     creators |-> Array(<<Creator(Str("Smith"), Absent), Creator(Str("Doe"), Absent),
                          Creator(Str("Roe"), Absent)>>),
     date     |-> fields.date,
     publicationTitle    |-> fields.publicationTitle,
     journalAbbreviation |-> fields.journalAbbreviation]

\* Records passed to format: a record as a caller holds it, as the store
\* returns it after a save, with creators of every shape, a journal article.
FormatInputs ==
    {Item(c) : c \in ShownCitations}
        \cup {NormalizeCitation(ParseCitation(BuildCitation(Item(c)))) : c \in ShownCitations}
        \cup {[key |-> Str("X1"), title |-> Str("Foo"), creators |-> Array(q)] :
                 q \in CreatorLists}
        \cup {Article(fields) : fields \in ArticleFields}

\* Templates passed to the formatter besides those of Formats.
Templates ==
    { <<"[", "{#}", "]">>,
      <<"<b>", "{title}", "</b>", ", ", "{year}">>,
      <<"{creator}", " (", "{date}", "), ", "<i>", "{journalAbbreviation}", "</i>">>,
      <<"{title}", " / ", "{title}">>,
      <<"{publicationTitle}", " ", "{volume}", "(", "{issue}", "): ", "{pages}">> }

FormatConfigs == Formats \cup {[format |-> t, delimiter |-> Undefined] : t \in Templates}

FormatIndexes == -1..2

\* Values of extras.startIndex, -1 when there is none.
StartIndexes == {-1, 0, 3}

\* The fields of a record besides key, title and creators.
FieldsOf(citation) ==
    [date |-> Field(citation, "date"),
     publicationTitle |-> Field(citation, "publicationTitle"),
     journalAbbreviation |-> Field(citation, "journalAbbreviation")]

\* One call of format on a formatter constructed with config.
FormatCitation(config, citation, index, startIndex, found) ==
    LET formatted == Format(config, citation, index, startIndex, found)
    IN  /\ last' = [NoCall EXCEPT !.op = "format", !.item = Some(citation),
                                  !.fields = FieldsOf(citation),
                                  !.format = config.format, !.index = index,
                                  !.startIndex = startIndex, !.lookup = found,
                                  !.outcome = IF formatted.threw THEN "rejected" ELSE "resolved",
                                  !.segments = formatted.segments]
        /\ UNCHANGED <<customXmlParts, tags, inflight, pruning, shapes, calls, zoteroConfig, localStorage>>

\* Texts with markup, as format hands them to parseFormattedText.
MaxMarkup == 4
MarkedTexts == UNION { [1..n -> FormatTags \cup {"Foo", ", 2020", "<B>"}] : n \in 0..MaxMarkup }

\* One call of parseFormattedText.
ParseMarkup(text) ==
    /\ last' = [NoCall EXCEPT !.op = "parseFormattedText", !.format = text,
                              !.segments = ParseFormattedText(text)]
    /\ UNCHANGED <<customXmlParts, tags, inflight, pruning, shapes, calls, zoteroConfig, localStorage>>

RECURSIVE Concat(_)
Concat(segments) ==
    IF segments = <<>> THEN <<>> ELSE segments[1].text \o Concat(Tail(segments))

\* showCitationsOnSlide, 341-367, from entry index of citations on: shown holds
\* completeText, allSegments and the keys of the records formatted so far.
\* format is passed the index alone; the records rendered have no
\* publication title, for which the abbreviation service is not asked.
RECURSIVE ShowFrom(_, _, _, _)
ShowFrom(config, citations, index, shown) ==
    IF index >= Len(citations) THEN shown
    ELSE IF citations[index + 1].isNull THEN ShowFrom(config, citations, index + 1, shown)
    ELSE LET citation  == citations[index + 1]
             formatted == Format(config, citation, index, -1, Absent)
             segments  == [shown EXCEPT !.text     = @ \o Concat(formatted.segments),
                                        !.runs     = @ \o formatted.segments,
                                        !.rendered = Append(@, citation.key.s)]
             delimited == IF index < Len(citations) - 1
                          THEN [segments EXCEPT
                                  !.text = @ \o Text(DelimiterOf(config)),
                                  !.runs = Append(@, FormattedText(Text(DelimiterOf(config)),
                                                                   FALSE, FALSE))]
                          ELSE segments
         IN  IF formatted.threw THEN [shown EXCEPT !.threw = TRUE]
             ELSE ShowFrom(config, citations, index + 1, delimited)

\* showCitationsOnSlide with the formatter of config and the records of the
\* store.  Without keys the text box goes and the result is false; an error of
\* format leaves the call before anything is written to the box.
ShowCitationsOnSlide(config, s) ==
    LET citationKeys == CitationKeysOf(Synced[s])
        parts     == GetOrCreateCustomXmlPart(customXmlParts)
        items     == MapOf(GetCitationStoreXml(parts[1]))
        citations == [i \in 1..Len(citationKeys) |-> MapGet(items, citationKeys[i])]
        shown     == ShowFrom(config, citations, 0,
                              [threw |-> FALSE, text |-> <<>>, runs |-> <<>>, rendered |-> <<>>])
    IN  /\ customXmlParts' = parts
        /\ tags' = Synced
        /\ inflight' = <<>>
        /\ shapes' = IF Len(citations) = 0 THEN [shapes EXCEPT ![s] = NoShape]
                     ELSE IF shown.threw THEN shapes
                     ELSE [shapes EXCEPT ![s] = TextBox(shown.text, shown.runs)]
        /\ UNCHANGED <<pruning, calls, zoteroConfig, localStorage>>
        /\ last' = [NoCall EXCEPT !.op = "showCitationsOnSlide", !.slide = s,
                                  !.format = config.format,
                                  !.delimiter = DelimiterOf(config),
                                  !.ok = Len(citations) > 0 /\ ~shown.threw,
                                  !.outcome = IF Len(citations) > 0 /\ shown.threw
                                              THEN "rejected" ELSE "resolved",
                                  !.segments = shown.runs, !.rendered = shown.rendered,
                                  !.parts = customXmlParts, !.tag = Synced[s]]

---------------------------------------------------------------------------
(* The task pane: the citations of the current slide and their reordering   *)

\* getCitationsOnSlide, 513-526: the records found for the keys of the slide,
\* in the order of the keys; a key without record contributes nothing.
CitationsOnSlide(parts, tag) ==
    LET citationKeys == CitationKeysOf(tag)
        map          == MapOf(GetCitationStoreXml(parts[1]))
        found        == [i \in 1..Len(citationKeys) |-> MapGet(map, citationKeys[i])]
        IsRecord(citation) == ~citation.isNull
    IN  SelectSeq(found, IsRecord)

\* What showCitationsOnSlide leaves in the citation text box of a slide that
\* carries tag; an error of format is caught by the task pane.
ShapeShown(config, parts, tag, shape) ==
    LET citationKeys == CitationKeysOf(tag)
        map       == MapOf(GetCitationStoreXml(parts[1]))
        citations == [i \in 1..Len(citationKeys) |-> MapGet(map, citationKeys[i])]
        shown     == ShowFrom(config, citations, 0,
                              [threw |-> FALSE, text |-> <<>>, runs |-> <<>>, rendered |-> <<>>])
    IN  IF Len(citations) = 0 THEN NoShape
        ELSE IF shown.threw THEN shape
        ELSE TextBox(shown.text, shown.runs)

\* reorderCitations, 732-734: splice(fromIndex, 1) and splice(toIndex, 0, moved),
\* indexes counted from 0.
Moved(citations, fromIndex, toIndex) ==
    LET without == [i \in 1..(Len(citations) - 1) |->
                       IF i <= fromIndex THEN citations[i] ELSE citations[i + 1]]
    IN  [i \in 1..Len(citations) |->
            IF i <= toIndex THEN without[i]
            ELSE IF i = toIndex + 1 THEN citations[fromIndex + 1]
            ELSE without[i - 1]]

\* updateCitationsPanel, 560-578: the citations of the slide are read and
\* listed in the pane, and the slide is rendered.
UpdateCitationsPanel(config, s) ==
    LET parts == GetOrCreateCustomXmlPart(customXmlParts)
    IN  /\ customXmlParts' = parts
        /\ tags' = Synced
        /\ inflight' = <<>>
        /\ shapes' = [shapes EXCEPT ![s] = ShapeShown(config, parts, Synced[s], shapes[s])]
        /\ UNCHANGED <<pruning, calls, zoteroConfig, localStorage>>
        /\ last' = [NoCall EXCEPT !.op = "updateCitationsPanel", !.slide = s,
                                  !.items = CitationsOnSlide(parts, Synced[s]),
                                  !.format = config.format,
                                  !.parts = customXmlParts, !.tag = Synced[s]]

\* The drop handler, 716-719, reorderCitations, 727-744, and
\* updateCitationOrder, 746-760: the citations listed in the pane are moved,
\* their keys are written to the slide, and the pane is updated.
ReorderCitations(config, fromIndex, toIndex) ==
    LET s           == last.slide
        citations   == last.items
        reordered   == Moved(citations, fromIndex, toIndex)
        orderedKeys == [i \in 1..Len(reordered) |-> reordered[i].key.s]
        parts       == GetOrCreateCustomXmlPart(customXmlParts)
        tag         == Tag(Join(KeysReordered(CitationKeysOf(Synced[s]), orderedKeys)))
    IN  /\ last.op \in {"updateCitationsPanel", "reorderCitations"}
        /\ fromIndex \in 0..(Len(citations) - 1)
        /\ toIndex \in 0..(Len(citations) - 1)
        /\ fromIndex # toIndex
        /\ customXmlParts' = parts
        /\ tags' = [Synced EXCEPT ![s] = tag]
        /\ inflight' = <<>>
        /\ shapes' = [shapes EXCEPT ![s] = ShapeShown(config, parts, tag, shapes[s])]
        /\ UNCHANGED <<pruning, calls, zoteroConfig, localStorage>>
        /\ last' = [NoCall EXCEPT !.op = "reorderCitations", !.slide = s,
                                  !.keys = orderedKeys,
                                  !.items = CitationsOnSlide(parts, tag),
                                  !.format = config.format,
                                  !.parts = customXmlParts, !.tag = Synced[s]]

---------------------------------------------------------------------------
(* ZoteroLibrary: updateConfig, setConfig, loadConfig *)

\* Partial configurations passed to updateConfig, and configurations passed
\* to setConfig.
PartialConfigs ==
    { Selecting(Config(apiKey, userId, citationFormats), selected) :
        apiKey \in {Absent, Str("k3y")}, userId \in {-1, 7},
        citationFormats \in CitationFormatsInputs, selected \in SelectedInputs }

Configs == { c \in PartialConfigs : c.apiKey # Absent /\ c.userId # -1 }

\* validateCitationFormat, 218-226
ValidateCitationFormat(format) ==
    /\ format.kind = "object"
    /\ format.format.t = "string"
    /\ format.delimiter.t = "undefined" \/ format.delimiter.t = "string"

\* validateCitationFormats, 231-243
ValidateCitationFormats(formats) ==
    /\ formats.kind = "object"
    /\ \A i \in 1..Len(formats.entries) : ValidateCitationFormat(formats.entries[i].value)

\* Truthiness of the citationFormats property: an object or an array.
TruthyFormats(formats) == formats.kind \in {"object", "array"}

\* hasUserIdAndApiKey, 119-124
HasUserIdAndApiKey(c) == Truthy(c.apiKey) /\ c.userId > 0

\* { ...this.config, ...config }, 130: a property the second object has
\* replaces that of the first, also when its value is undefined.
Merged(current, partial) ==
    Selecting(
        Config(IF partial.apiKey # Absent THEN partial.apiKey ELSE current.apiKey,
               IF partial.userId # -1 THEN partial.userId ELSE current.userId,
               IF partial.citationFormats # FormatsMissing THEN partial.citationFormats
               ELSE current.citationFormats),
        IF partial.selectedCitationFormat # Absent THEN partial.selectedCitationFormat
        ELSE current.selectedCitationFormat)

\* JSON.stringify, 171: a property whose value is undefined is left out.
Stringify(c) ==
    [c EXCEPT !.citationFormats = IF @.kind = "undefined" THEN FormatsMissing ELSE @]

\* JSON.parse, 196
Parse(json) == [json EXCEPT !.defined = TRUE]

\* setConfig, 142-163, up to its first await that yields: the configuration
\* and the settings item it leaves, and whether it throws.  quota says that
\* localStorage.setItem throws.
SetConfigResult(newConfig, quota) ==
    IF TruthyFormats(newConfig.citationFormats)
           /\ ~ValidateCitationFormats(newConfig.citationFormats)
    THEN [threw |-> TRUE, config |-> zoteroConfig, localStorage |-> localStorage]
    ELSE IF quota
    THEN [threw |-> TRUE, config |-> newConfig, localStorage |-> localStorage]
    ELSE [threw |-> FALSE, config |-> newConfig, localStorage |-> Stored(Stringify(newConfig))]

\* setConfig, 142-163, awaited by its caller.
SetConfig(newConfig, quota) ==
    LET result == SetConfigResult(newConfig, quota)
    IN  /\ zoteroConfig' = result.config
        /\ localStorage' = result.localStorage
        /\ last' = [NoCall EXCEPT !.op = "setConfig",
                                  !.citationFormats = newConfig.citationFormats,
                                  !.failed = IF quota THEN "save" ELSE "",
                                  !.outcome = IF result.threw THEN "rejected" ELSE "resolved"]
        /\ UNCHANGED <<customXmlParts, tags, inflight, pruning, shapes, calls>>

\* updateConfig, 126-137: throws without configuration and credentials; else
\* calls setConfig, whose promise it neither awaits nor returns.
UpdateConfig(partial, quota) ==
    LET newConfig == IF zoteroConfig.defined THEN Merged(zoteroConfig, partial) ELSE partial
        throws    == ~zoteroConfig.defined /\ ~HasUserIdAndApiKey(partial)
        result    == SetConfigResult(newConfig, quota)
    IN  /\ zoteroConfig' = IF throws THEN zoteroConfig ELSE result.config
        /\ localStorage' = IF throws THEN localStorage ELSE result.localStorage
        /\ last' = [NoCall EXCEPT !.op = "updateConfig",
                                  !.citationFormats = newConfig.citationFormats,
                                  !.failed = IF quota THEN "save" ELSE "",
                                  !.outcome = IF throws THEN "rejected" ELSE "resolved"]
        /\ UNCHANGED <<customXmlParts, tags, inflight, pruning, shapes, calls>>

\* loadConfig, 190-205
LoadConfig ==
    /\ zoteroConfig' = IF localStorage.present THEN Parse(localStorage.json) ELSE zoteroConfig
    /\ last' = [NoCall EXCEPT !.op = "loadConfig"]
    /\ UNCHANGED <<customXmlParts, tags, inflight, pruning, shapes, calls, localStorage>>

\* formats[name]: the value of the property, undefined when formats has none
\* of that name.
Lookup(formats, name) ==
    IF \E i \in 1..Len(formats.entries) : formats.entries[i].name = name
    THEN formats.entries[CHOOSE i \in 1..Len(formats.entries) :
                            formats.entries[i].name = name].value
    ELSE NotAnObject("undefined")

\* getCitationFormat, 289-295: the fallback is the property named default of
\* DEFAULT_CONFIG.citationFormats; ?? replaces undefined and null.
GetCitationFormatOf(c) ==
    LET defaultFormat == Lookup(DefaultFormats, "default")
    IN  IF c.defined /\ Truthy(c.selectedCitationFormat) /\ TruthyFormats(c.citationFormats)
        THEN LET chosen == Lookup(c.citationFormats, c.selectedCitationFormat.s)
             IN  IF chosen.kind \in {"undefined", "null"} THEN defaultFormat ELSE chosen
        ELSE defaultFormat

GetCitationFormat ==
    /\ last' = [NoCall EXCEPT !.op = "getCitationFormat",
                              !.citationFormats = zoteroConfig.citationFormats,
                              !.spec = GetCitationFormatOf(zoteroConfig)]
    /\ UNCHANGED <<customXmlParts, tags, inflight, pruning, shapes, calls, zoteroConfig,
                   localStorage>>

---------------------------------------------------------------------------
(* Calls during which the host rejects one request.  step names the awaited *)
(* request that is rejected; what was queued with it is not applied.        *)

\* saveCitationStoreXml, 194-197: setXml is the one command of the rejected
\* request; the part keeps its content.
FailedSave(part, storeXml) == part

\* The parts after a store call that failed at step.  A part to be created is
\* queued with the request that loads its XML: when that request is rejected
\* the part was added before the failing command or was not; at a later step
\* it is there.
PartsAfterFailure(parts, step, storeXml) ==
    LET created == GetOrCreateCustomXmlPart(parts)
    IN  IF step = "load" THEN {parts, created}
        ELSE IF step = "save"
             THEN {[created EXCEPT ![1] = FailedSave(created[1], storeXml)]}
        ELSE {parts}

\* add, 205-225: an error of any request is thrown again with its text.
AddFailing(c, step) ==
    LET parts    == GetOrCreateCustomXmlPart(customXmlParts)
        storeXml == AddCitation(GetCitationStoreXml(parts[1]), Item(c))
    IN  /\ step \in {"find", "load", "save"}
        /\ customXmlParts' \in PartsAfterFailure(customXmlParts, step, storeXml)
        /\ tags' = Synced
        /\ inflight' = <<>>
        /\ UNCHANGED <<pruning, shapes, calls, zoteroConfig, localStorage>>
        /\ last' = [NoCall EXCEPT !.op = "add", !.key = c.key, !.item = Some(Item(c)),
                                  !.parts = customXmlParts, !.outcome = "rejected",
                                  !.failed = step,
                                  !.writes = IF step = "save" THEN 1 ELSE 0]

\* remove, 279-298: the save is reached when a record was filtered out.
RemoveFailing(key, step) ==
    LET parts    == GetOrCreateCustomXmlPart(customXmlParts)
        original == GetCitationStoreXml(parts[1])
        storeXml == RemoveCitation(original, key)
    IN  /\ step \in {"find", "load", "save"}
        /\ step = "save" => Len(storeXml) < Len(original)
        /\ customXmlParts' \in PartsAfterFailure(customXmlParts, step, storeXml)
        /\ tags' = Synced
        /\ inflight' = <<>>
        /\ UNCHANGED <<pruning, shapes, calls, zoteroConfig, localStorage>>
        /\ last' = [NoCall EXCEPT !.op = "remove", !.key = key,
                                  !.parts = customXmlParts, !.outcome = "rejected",
                                  !.failed = step,
                                  !.writes = IF step = "save" THEN 1 ELSE 0]

\* prune, 321-350: nothing is caught; the error of the request, or the one
\* saveCitationStoreXml throws, rejects the call.
PruneFailing(step) ==
    LET parts    == GetOrCreateCustomXmlPart(customXmlParts)
        storeXml == PruneCitations(GetCitationStoreXml(parts[1]), UsedKeys(Synced))
    IN  /\ step \in {"tags", "find", "load", "save"}
        /\ customXmlParts' \in PartsAfterFailure(customXmlParts, step, storeXml)
        /\ tags' = Synced
        /\ inflight' = <<>>
        /\ UNCHANGED <<pruning, shapes, calls, zoteroConfig, localStorage>>
        /\ last' = [NoCall EXCEPT !.op = "prune",
                                  !.parts = customXmlParts, !.outcome = "rejected",
                                  !.failed = step,
                                  !.writes = IF step = "save" THEN 1 ELSE 0]

\* addCitationKeyToSlide, 392-399: an error of the read rejects the call; the
\* sync that sends the tag is not awaited, its error reaches nobody.
AddCitationKeyToSlideFailing(citationKey, s, step) ==
    LET added == KeysWithAdded(CitationKeysOf(Synced[s]), citationKey)
    IN  /\ step \in {"read", "write"}
        /\ tags' = Synced
        /\ inflight' = <<>>
        /\ UNCHANGED <<customXmlParts, pruning, shapes, calls, zoteroConfig, localStorage>>
        /\ last' = [NoCall EXCEPT !.op = "addCitationKeyToSlide", !.slide = s,
                                  !.key = citationKey, !.tag = Synced[s],
                                  !.outcome = IF step = "read" THEN "rejected"
                                              ELSE "resolved",
                                  !.failed = step,
                                  !.writes = IF step = "write" THEN 1 ELSE 0]

\* removeCitationFromSlide, 409-424: an error of the read is caught and the
\* result is false; the sync that sends the tag is not awaited, prune() is
\* started and the result is true.
RemoveCitationFromSlideFailing(citationKey, s, step) ==
    LET removed == KeysWithRemoved(CitationKeysOf(Synced[s]), citationKey)
    IN  /\ step \in {"read", "write"}
        /\ step = "write" => removed.write /\ Len(pruning) < MaxPrunes
        /\ tags' = Synced
        /\ inflight' = <<>>
        /\ pruning' = IF step = "write"
                      THEN Append(pruning, [pc |-> "tags", usedKeys |-> {}])
                      ELSE pruning
        /\ UNCHANGED <<customXmlParts, shapes, calls, zoteroConfig, localStorage>>
        /\ last' = [NoCall EXCEPT !.op = "removeCitationFromSlide", !.slide = s,
                                  !.key = citationKey, !.tag = Synced[s],
                                  !.ok = (step = "write"),
                                  !.outcome = "resolved",
                                  !.failed = step,
                                  !.writes = IF step = "write" THEN 1 ELSE 0]

\* updateCitationKeysOrder, 484-488: both requests are awaited.
UpdateCitationKeysOrderFailing(orderedKeys, s, step) ==
    /\ step \in {"read", "write"}
    /\ tags' = Synced
    /\ inflight' = <<>>
    /\ UNCHANGED <<customXmlParts, pruning, shapes, calls, zoteroConfig, localStorage>>
    /\ last' = [NoCall EXCEPT !.op = "updateCitationKeysOrder", !.slide = s,
                              !.keys = orderedKeys, !.outcome = "rejected",
                              !.failed = step,
                              !.writes = IF step = "write" THEN 1 ELSE 0]

---------------------------------------------------------------------------
(* Calls issued without awaiting one another.  A call runs up to its next   *)
(* awaited request in one step; between two steps of one call the steps of  *)
(* the other calls may run.                                                 *)

\* The record a call was given.
RecordOf(item) == [key |-> item.key, title |-> item.title, creators |-> item.creators]

\* The place of the next write among the writes made so far.
NextTurn == 1 + Cardinality({p \in Callers : calls[p].turn > 0})

IssueAdd(p, c) ==
    /\ calls[p] = Idle
    /\ calls' = [calls EXCEPT ![p] = [Idle EXCEPT !.op = "add", !.pc = "find",
                                                  !.item = Some(Item(c))]]
    /\ UNCHANGED <<customXmlParts, tags, inflight, pruning, last, shapes, zoteroConfig, localStorage>>

IssueGetAll(p) ==
    /\ calls[p] = Idle
    /\ calls' = [calls EXCEPT ![p] = [Idle EXCEPT !.op = "getAll", !.pc = "find"]]
    /\ UNCHANGED <<customXmlParts, tags, inflight, pruning, last, shapes, zoteroConfig, localStorage>>

IssueGetItem(p, keys) ==
    /\ calls[p] = Idle
    /\ calls' = [calls EXCEPT ![p] = [Idle EXCEPT !.op = "getItem", !.pc = "find",
                                                  !.keys = keys]]
    /\ UNCHANGED <<customXmlParts, tags, inflight, pruning, last, shapes, zoteroConfig, localStorage>>

IssueAddCitationKeyToSlide(p, citationKey, s) ==
    /\ calls[p] = Idle
    /\ calls' = [calls EXCEPT ![p] = [Idle EXCEPT !.op = "addCitationKeyToSlide",
                                                  !.pc = "read", !.key = citationKey,
                                                  !.slide = s]]
    /\ UNCHANGED <<customXmlParts, tags, inflight, pruning, last, shapes, zoteroConfig, localStorage>>

IssueGetCitationKeysOnSlide(p, s) ==
    /\ calls[p] = Idle
    /\ calls' = [calls EXCEPT ![p] = [Idle EXCEPT !.op = "getCitationKeysOnSlide",
                                                  !.pc = "read", !.slide = s]]
    /\ UNCHANGED <<customXmlParts, tags, inflight, pruning, last, shapes, zoteroConfig, localStorage>>

\* getOrCreateCustomXmlPart, 113-128: the parts are loaded and the first with
\* the citation namespace is looked for.
FindPart(p) ==
    /\ calls[p].pc = "find"
    /\ calls' = [calls EXCEPT ![p].pc = "load", ![p].found = customXmlParts # <<>>]
    /\ tags' = Synced
    /\ inflight' = <<>>
    /\ UNCHANGED <<customXmlParts, pruning, last, shapes, zoteroConfig, localStorage>>

\* 129-132 and xmlPartToString: a call that found no part adds one, after the
\* parts there are by now; the XML of its part is read and parsed.
LoadStore(p) ==
    LET parts    == IF calls[p].found THEN customXmlParts ELSE Append(customXmlParts, <<>>)
        part     == IF calls[p].found THEN 1 ELSE Len(parts)
        storeXml == GetCitationStoreXml(parts[part])
        items    == MapOf(storeXml)
    IN  /\ calls[p].pc = "load"
        /\ customXmlParts' = parts
        /\ calls' = [calls EXCEPT
              ![p].part     = part,
              ![p].storeXml = storeXml,
              ![p].pc       = IF calls[p].op = "add" THEN "save" ELSE "done",
              ![p].items    = IF calls[p].op = "getAll" THEN items
                              ELSE IF calls[p].op = "getItem"
                                   THEN [i \in 1..Len(calls[p].keys) |->
                                            MapGet(items, calls[p].keys[i])]
                              ELSE <<>>]
        /\ tags' = Synced
        /\ inflight' = <<>>
        /\ UNCHANGED <<pruning, last, shapes, zoteroConfig, localStorage>>

\* add, 211-219: the list loaded earlier is filtered, extended and saved.
SaveStore(p) ==
    LET block == SaveCitationStoreXml(AddCitation(calls[p].storeXml, RecordOf(calls[p].item)))
    IN  /\ calls[p].pc = "save"
        /\ customXmlParts' = [customXmlParts EXCEPT ![calls[p].part] = block]
        /\ calls' = [calls EXCEPT ![p].pc = "done", ![p].wrote = block, ![p].turn = NextTurn]
        /\ tags' = Synced
        /\ inflight' = <<>>
        /\ UNCHANGED <<pruning, last, shapes, zoteroConfig, localStorage>>

\* getCitationKeysOnSlide, 455-470
ReadTag(p) ==
    /\ calls[p].pc = "read"
    /\ calls' = [calls EXCEPT
          ![p].citationKeys = CitationKeysOf(Synced[calls[p].slide]),
          ![p].pc = IF calls[p].op = "addCitationKeyToSlide" THEN "write" ELSE "done"]
    /\ tags' = Synced
    /\ inflight' = <<>>
    /\ UNCHANGED <<customXmlParts, pruning, last, shapes, zoteroConfig, localStorage>>

\* addCitationKeyToSlide, 395-399: the list read earlier is extended and
\* dispatched; the call resolves.
WriteTag(p) ==
    LET added == KeysWithAdded(calls[p].citationKeys, calls[p].key)
    IN  /\ calls[p].pc = "write"
        /\ inflight' = IF added.write
                       THEN Append(inflight, TagWrite(calls[p].slide, added.keys))
                       ELSE inflight
        /\ calls' = [calls EXCEPT ![p].pc = "done",
                                  ![p].wrote = IF added.write THEN Join(added.keys) ELSE <<>>,
                                  ![p].turn = IF added.write THEN NextTurn ELSE 0]
        /\ UNCHANGED <<customXmlParts, tags, pruning, last, shapes, zoteroConfig, localStorage>>

---------------------------------------------------------------------------
(* Specifications *)

StoreCall ==
    \/ \E c \in Citations : Add(c)
    \/ GetAll
    \/ \E keys \in LookupKeys : GetItem(keys)
    \/ \E key \in Keys : Remove(key)
    \/ ClearStore
    \/ Prune

SlideCall ==
    \/ \E s \in Slides : GetCitationKeysOnSlide(s)
    \/ \E key \in Keys, s \in Slides : AddCitationKeyToSlide(key, s)
    \/ \E key \in Keys, s \in Slides : RemoveCitationFromSlide(key, s)
    \/ \E keys \in OrderedKeys, s \in Slides : UpdateCitationKeysOrder(keys, s)

Background ==
    \/ Land
    \/ \E i \in 1..MaxPrunes : PruneReadTags(i)
    \/ \E i \in 1..MaxPrunes : PruneSweep(i)

\* The add-in on a new presentation.
Next == StoreCall \/ SlideCall \/ Background

Spec == Init /\ [][Next]_vars

\* Store calls, each awaited before the next, on a presentation whose slides
\* already carry key lists.
InitStore ==
    /\ customXmlParts = <<>>
    /\ tags \in [Slides -> {NullObject} \cup
                           {Tag(Join(q)) : q \in {k \in OrderedKeys : Len(k) <= MaxInitKeys}}]
    /\ inflight = <<>>
    /\ pruning = <<>>
    /\ last = NoCall
    /\ shapes = [s \in Slides |-> NoShape]
    /\ calls = [p \in Callers |-> Idle]
    /\ zoteroConfig = NoConfig
    /\ localStorage = NoItem

SpecStore == InitStore /\ [][StoreCall]_vars

\* Slide calls, each awaited before the next, on a presentation whose store
\* holds one record.
InitSlides ==
    /\ customXmlParts =
          << SaveCitationStoreXml(<<Item([key |-> "X1", title |-> "Alpha", creators |-> <<"Smith">>])>>) >>
    /\ tags = [s \in Slides |-> NullObject]
    /\ inflight = <<>>
    /\ pruning = <<>>
    /\ last = NoCall
    /\ shapes = [s \in Slides |-> NoShape]
    /\ calls = [p \in Callers |-> Idle]
    /\ zoteroConfig = NoConfig
    /\ localStorage = NoItem

SpecSlides == InitSlides /\ [][SlideCall \/ Background]_vars

\* Calls that add, each awaited before the next, on a new presentation.
SerialCall ==
    \/ \E c \in Citations : Add(c)
    \/ \E key \in Keys, s \in Slides : AddCitationKeyToSlide(key, s)
    \/ Land

SpecSerial == Init /\ [][SerialCall]_vars

\* The formatter on its own: one call of format or of parseFormattedText, the
\* first call made.
FormatOnce(config, citation, index, startIndex, found) ==
    /\ last.op = "none"
    /\ FormatCitation(config, citation, index, startIndex, found)

ParseOnce(text) ==
    /\ last.op = "none"
    /\ ParseMarkup(text)

FormatCall ==
    \/ \E config \in FormatConfigs, citation \in FormatInputs, index \in FormatIndexes,
          startIndex \in StartIndexes, found \in LookupResults :
          FormatOnce(config, citation, index, startIndex, found)
    \/ \E text \in MarkedTexts : ParseOnce(text)

SpecFormat == Init /\ [][FormatCall]_vars

\* Record lists the store can hold: at most MaxShown records of different keys.
ShownStores ==
    { q \in UNION { [1..n -> ShownCitations] : n \in 0..MaxShown } :
        \A i, j \in 1..Len(q) : q[i].key = q[j].key => i = j }

\* Rendering the slides of a presentation that lists keys on its first slide
\* and holds records, part of them for other keys.
InitShow ==
    /\ customXmlParts \in
          { << SaveCitationStoreXml([i \in 1..Len(q) |-> Item(q[i])]) >> : q \in ShownStores }
    /\ tags \in { [s \in Slides |-> IF s = 1 THEN tag ELSE NullObject] :
                      tag \in {NullObject} \cup {Tag(Join(q)) : q \in OrderedKeys} }
    /\ inflight = <<>>
    /\ pruning = <<>>
    /\ last = NoCall
    /\ shapes = [s \in Slides |-> NoShape]
    /\ calls = [p \in Callers |-> Idle]
    /\ zoteroConfig = NoConfig
    /\ localStorage = NoItem

ShowCall == \E config \in Formats, s \in Slides : ShowCitationsOnSlide(config, s)

SpecShow == InitShow /\ [][ShowCall]_vars

\* The task pane inserts a record on a slide, renders the slide, removes the
\* key from the slide, waits for the sweep and looks the key up.  The record
\* and the slide are chosen at the start; the slides may list keys already.
TitleFormat == [format |-> <<"{title}">>, delimiter |-> Undefined]

InitScenario ==
    /\ customXmlParts = <<>>
    /\ tags \in [Slides -> {NullObject} \cup
                           {Tag(Join(q)) : q \in {k \in OrderedKeys : Len(k) <= MaxInitKeys}}]
    /\ inflight = <<>>
    /\ pruning = <<>>
    /\ last = NoCall
    /\ shapes = [s \in Slides |-> NoShape]
    /\ calls \in { [p \in Callers |-> IF p = 1
                                     THEN [Idle EXCEPT !.op = "scenario", !.item = Some(Item(c)),
                                                       !.key = c.key, !.slide = s]
                                     ELSE Idle] : c \in ShownCitations, s \in Slides }
    /\ zoteroConfig = NoConfig
    /\ localStorage = NoItem

ScenarioCall ==
    \/ /\ last.op = "none"
       /\ \E c \in ShownCitations : calls[1].item = Some(Item(c)) /\ Add(c)
    \/ /\ last.op = "add"
       /\ AddCitationKeyToSlide(calls[1].key, calls[1].slide)
    \/ /\ last.op = "addCitationKeyToSlide"
       /\ ShowCitationsOnSlide(TitleFormat, calls[1].slide)
    \/ /\ last.op = "showCitationsOnSlide"
       /\ RemoveCitationFromSlide(calls[1].key, calls[1].slide)
    \/ /\ last.op = "pruneSweep"
       /\ pruning = <<>>
       /\ GetItem(<<calls[1].key>>)

SpecScenario == InitScenario /\ [][ScenarioCall \/ Background]_vars

\* Two callers each issue one adding call on a presentation that has no
\* citation part yet, or has one with a record, without awaiting the other.
InitRace ==
    /\ customXmlParts \in
          { <<>>,
            << SaveCitationStoreXml(<<Item([key |-> "42", title |-> "Beta",
                                            creators |-> <<"Smith", "Doe">>])>>) >> }
    /\ tags \in { [s \in Slides |-> NullObject],
                  [s \in Slides |-> IF s = 1 THEN Tag(Join(<<"42">>)) ELSE NullObject] }
    /\ inflight = <<>>
    /\ pruning = <<>>
    /\ last = NoCall
    /\ shapes = [s \in Slides |-> NoShape]
    /\ calls = [p \in Callers |-> Idle]
    /\ zoteroConfig = NoConfig
    /\ localStorage = NoItem

RaceStep ==
    \/ \E p \in Callers, c \in Citations : IssueAdd(p, c)
    \/ \E p \in Callers, key \in Keys, s \in Slides : IssueAddCitationKeyToSlide(p, key, s)
    \/ \E p \in Callers : FindPart(p)
    \/ \E p \in Callers : LoadStore(p)
    \/ \E p \in Callers : SaveStore(p)
    \/ \E p \in Callers : ReadTag(p)
    \/ \E p \in Callers : WriteTag(p)
    \/ Land

SpecRace == InitRace /\ [][RaceStep]_vars

\* Callers each issue one reading call without awaiting the others, on a
\* presentation with or without citation part.
InitReads ==
    /\ customXmlParts \in
          {<<>>} \cup
          { << SaveCitationStoreXml([i \in 1..Len(q) |-> Item(q[i])]) >> : q \in ShownStores }
    /\ tags \in { [s \in Slides |-> IF s = 1 THEN tag ELSE NullObject] :
                      tag \in {NullObject, Tag(Join(<<"X1">>)), Tag(Join(<<"X1", "0">>))} }
    /\ inflight = <<>>
    /\ pruning = <<>>
    /\ last = NoCall
    /\ shapes = [s \in Slides |-> NoShape]
    /\ calls = [p \in Callers |-> Idle]
    /\ zoteroConfig = NoConfig
    /\ localStorage = NoItem

ReadStep ==
    \/ \E p \in Callers : IssueGetAll(p)
    \/ \E p \in Callers, key \in Keys : IssueGetItem(p, <<key>>)
    \/ \E p \in Callers, s \in Slides : IssueGetCitationKeysOnSlide(p, s)
    \/ \E p \in Callers : FindPart(p)
    \/ \E p \in Callers : LoadStore(p)
    \/ \E p \in Callers : ReadTag(p)

SpecReads == InitReads /\ [][ReadStep]_vars

\* Calls awaited in turn, part of them with a request the host rejects.
FailSteps == {"tags", "find", "load", "save", "read", "write"}

FailingCall ==
    \/ \E c \in Citations, step \in FailSteps : AddFailing(c, step)
    \/ \E key \in Keys, step \in FailSteps : RemoveFailing(key, step)
    \/ \E step \in FailSteps : PruneFailing(step)
    \/ \E key \in Keys, s \in Slides, step \in FailSteps :
          AddCitationKeyToSlideFailing(key, s, step)
    \/ \E key \in Keys, s \in Slides, step \in FailSteps :
          RemoveCitationFromSlideFailing(key, s, step)
    \/ \E keys \in {k \in OrderedKeys : Len(k) <= MaxInitKeys}, s \in Slides,
          step \in FailSteps :
          UpdateCitationKeysOrderFailing(keys, s, step)

FailuresStep ==
    \/ \E c \in Citations : Add(c)
    \/ \E key \in Keys : Remove(key)
    \/ Prune
    \/ \E i \in 1..MaxPrunes : PruneReadTags(i)
    \/ \E i \in 1..MaxPrunes : PruneSweep(i)
    \/ FailingCall

\* A presentation without store part that lists keys on its first slide.
InitFailures ==
    /\ customXmlParts = <<>>
    /\ tags \in { [s \in Slides |-> IF s = 1 THEN tag ELSE NullObject] :
                      tag \in {NullObject} \cup
                          {Tag(Join(q)) : q \in {k \in OrderedKeys : Len(k) <= MaxInitKeys}} }
    /\ inflight = <<>>
    /\ pruning = <<>>
    /\ last = NoCall
    /\ shapes = [s \in Slides |-> NoShape]
    /\ calls = [p \in Callers |-> Idle]
    /\ zoteroConfig = NoConfig
    /\ localStorage = NoItem

SpecFailures == InitFailures /\ [][FailuresStep]_vars

\* The configuration on its own: updateConfig, setConfig and loadConfig, one
\* after the other.
ConfigCall ==
    \/ \E partial \in PartialConfigs, quota \in BOOLEAN : UpdateConfig(partial, quota)
    \/ \E newConfig \in Configs, quota \in BOOLEAN : SetConfig(newConfig, quota)
    \/ LoadConfig
    \/ GetCitationFormat

SpecConfig == Init /\ [][ConfigCall]_vars

---------------------------------------------------------------------------
(* insertCitationOnSlide.  The call is a caller's: between its add and its  *)
(* addCitationKeyToSlide what runs un-awaited can take a step.  step names   *)
(* the request the host rejects, "ok" when it rejects none.                 *)

InsertAddSteps == {"ok", "find", "load", "save"}
InsertKeySteps == {"ok", "read", "write"}

\* insertCitationOnSlide going on to the slide whatever add did.
AfterAddSwallowed(step) == "key"

\* insertCitationOnSlide, 504: add is awaited; when it throws, the rest of
\* the function is skipped and the call is rejected.
AfterAdd(step) == IF step = "ok" THEN "key" ELSE "failed"

IssueInsertCitationOnSlide(p, c, s) ==
    /\ calls[p] = Idle
    /\ calls' = [calls EXCEPT ![p] = [Idle EXCEPT !.op = "insertCitationOnSlide",
                                                  !.pc = "add", !.item = Some(Item(c)),
                                                  !.key = c.key, !.slide = s]]
    /\ UNCHANGED <<customXmlParts, tags, inflight, pruning, last, shapes, zoteroConfig, localStorage>>

\* insertCitationOnSlide, 501-504: await store.add(citation)
InsertAdd(p, step) ==
    \E c \in Citations :
        LET parts    == GetOrCreateCustomXmlPart(customXmlParts)
            storeXml == AddCitation(GetCitationStoreXml(parts[1]), Item(c))
            saved    == [parts EXCEPT ![1] = SaveCitationStoreXml(storeXml)]
        IN  /\ calls[p].op = "insertCitationOnSlide"
            /\ calls[p].pc = "add"
            /\ calls[p].item = Some(Item(c))
            /\ step \in InsertAddSteps
            /\ Len(storeXml) <= MaxStore
            /\ customXmlParts' \in IF step = "ok" THEN {saved}
                                   ELSE PartsAfterFailure(customXmlParts, step, storeXml)
            /\ calls' = [calls EXCEPT ![p].pc = AfterAdd(step),
                                      ![p].wrote = IF step = "ok" THEN saved[1] ELSE <<>>]
            /\ tags' = Synced
            /\ inflight' = <<>>
            /\ UNCHANGED <<pruning, shapes, zoteroConfig, localStorage>>
            /\ last' = [NoCall EXCEPT !.op = "add", !.key = c.key, !.item = Some(Item(c)),
                                      !.parts = customXmlParts,
                                      !.outcome = IF step = "ok" THEN "resolved" ELSE "rejected",
                                      !.failed = IF step = "ok" THEN "" ELSE step,
                                      !.writes = IF step \in {"ok", "save"} THEN 1 ELSE 0]

\* insertCitationOnSlide, 507: await addCitationKeyToSlide(citation.key); an
\* error of its read rejects the call, its write is sent and not awaited.
InsertAddKey(p, step) ==
    LET s     == calls[p].slide
        added == KeysWithAdded(CitationKeysOf(Synced[s]), calls[p].key)
    IN  /\ calls[p].op = "insertCitationOnSlide"
        /\ calls[p].pc = "key"
        /\ step \in InsertKeySteps
        /\ Len(added.keys) <= MaxSlideKeys
        /\ tags' = Synced
        /\ inflight' = IF step = "ok" /\ added.write THEN <<TagWrite(s, added.keys)>>
                       ELSE <<>>
        /\ calls' = [calls EXCEPT ![p].pc = IF step = "read" THEN "failed" ELSE "done",
                                  ![p].citationKeys = CitationKeysOf(Synced[s])]
        /\ UNCHANGED <<customXmlParts, pruning, shapes, zoteroConfig, localStorage>>
        /\ last' = [NoCall EXCEPT !.op = "insertCitationOnSlide", !.slide = s,
                                  !.key = calls[p].key, !.item = calls[p].item,
                                  !.tag = Synced[s],
                                  !.outcome = IF step = "read" THEN "rejected" ELSE "resolved",
                                  !.failed = IF step = "ok" THEN "" ELSE step,
                                  !.writes = IF step # "read" /\ added.write THEN 1 ELSE 0]

\* A presentation whose store holds no record or one, listed or not on its
\* first slide.
InitInsert ==
    /\ customXmlParts \in
          { <<>>,
            << SaveCitationStoreXml(<<Item([key |-> "X1", title |-> "Alpha",
                                            creators |-> <<"Smith">>])>>) >> }
    /\ tags \in { [s \in Slides |-> NullObject],
                  [s \in Slides |-> IF s = 1 THEN Tag(Join(<<"X1">>)) ELSE NullObject] }
    /\ inflight = <<>>
    /\ pruning = <<>>
    /\ last = NoCall
    /\ shapes = [s \in Slides |-> NoShape]
    /\ calls = [p \in Callers |-> Idle]
    /\ zoteroConfig = NoConfig
    /\ localStorage = NoItem

\* The task pane removes keys from slides and then inserts a record, each call
\* awaited before the next; the prune() a removal started runs beside them.
RemoveBeforeInsert(p, key, s) ==
    /\ calls[p] = Idle
    /\ RemoveCitationFromSlide(key, s)

InsertCall ==
    \/ \E key \in Keys, s \in Slides : RemoveBeforeInsert(1, key, s)
    \/ \E c \in Citations, s \in Slides : IssueInsertCitationOnSlide(1, c, s)
    \/ InsertAdd(1, "ok")
    \/ InsertAddKey(1, "ok")

SpecInsert == InitInsert /\ [][InsertCall \/ Background]_vars

\* One insert during which the host may reject a request.
InsertFailingCall ==
    \/ \E c \in Citations, s \in Slides : IssueInsertCitationOnSlide(1, c, s)
    \/ \E step \in InsertAddSteps : InsertAdd(1, step)
    \/ \E step \in InsertKeySteps : InsertAddKey(1, step)
    \/ Land

SpecInsertFailures == InitInsert /\ [][InsertFailingCall]_vars

\* The task pane lists the citations of a slide and the user drags them, on a
\* presentation that lists keys on its first slide and holds records, part of
\* them for other keys.
ReorderCall ==
    \/ \E config \in Formats, s \in Slides : UpdateCitationsPanel(config, s)
    \/ \E config \in Formats, fromIndex, toIndex \in 0..(MaxSlideKeys - 1) :
          ReorderCitations(config, fromIndex, toIndex)

SpecReorder == InitShow /\ [][ReorderCall]_vars

---------------------------------------------------------------------------
(* What the claims speak of, read off the persisted state directly *)

\* The persisted record list: the records of the citation part, none without a part.
Persisted(parts) == IF parts = <<>> THEN <<>> ELSE parts[1]

\* The number of persisted records with key k.
CountOf(store, k) == Cardinality({i \in 1..Len(store) : store[i].key = k})

KeysOfStore(store) == [i \in 1..Len(store) |-> store[i].key]

\* The keys in a tag, in order: the pieces of its value that are no separator.
ListOnSlide(tag) ==
    LET IsKey(piece) == piece # ","
    IN  IF tag.isNullObject THEN <<>> ELSE SelectSeq(tag.value, IsKey)

\* The keys that some slide lists.
Referenced(t) ==
    UNION { {ListOnSlide(t[s])[i] : i \in 1..Len(ListOnSlide(t[s]))} : s \in Slides }

Without(seq, x) ==
    LET Other(y) == y # x
    IN  SelectSeq(seq, Other)

OthersOf(store, k) ==
    LET Other(rec) == rec.key # k
    IN  SelectSeq(store, Other)

---------------------------------------------------------------------------
(* Claims about the store, under SpecStore *)

\* C1: after any sequence of awaited store calls the persisted record list
\* holds at most one record per key.
C1_OneRecordPerKey ==
    \A k \in Keys : CountOf(Persisted(customXmlParts), k) <= 1

\* C2: prune() removes exactly the records whose key no slide lists, keeps the
\* others in order, and returns the number of records removed.
C2_PruneExact ==
    last.op = "prune" =>
        LET before == Persisted(last.parts)
            after  == Persisted(customXmlParts)
            Listed(rec) == rec.key \in Referenced(tags)
        IN  /\ KeysOfStore(after) = KeysOfStore(SelectSeq(before, Listed))
            /\ last.count = Len(before) - Len(after)

\* C3: getItem([r.key]) directly after add(r) returns [r], equal to r in key,
\* title and creators.
C3_RoundTrip ==
    [][\A c \in Citations :
          (last.op = "add" /\ last.item = Some(Item(c)) /\ GetItem(<<c.key>>))
              => last'.items = <<Some(Item(c))>>]_vars

\* C4: add(r') directly after add(r) with the same key leaves exactly one
\* record under that key, which is r', and the records with other keys as they
\* were.
C4_LastWriteWins ==
    [][\A c \in Citations :
          (last.op = "add" /\ last.key = c.key /\ Add(c))
              => LET after == Persisted(customXmlParts')
                 IN  /\ CountOf(after, c.key) = 1
                     /\ \A i \in 1..Len(after) :
                            after[i].key = c.key => after[i] = BuildCitation(Item(c))
                     /\ KeysOfStore(OthersOf(after, c.key))
                          = KeysOfStore(OthersOf(Persisted(customXmlParts), c.key))]_vars

\* C5: remove(k) returns true iff a record with key k was in the store before
\* the call; afterwards there is none, and the records with other keys are
\* still there.
C5_RemoveCorrect ==
    last.op = "remove" =>
        LET before == Persisted(last.parts)
            after  == Persisted(customXmlParts)
        IN  /\ last.ok <=> CountOf(before, last.key) > 0
            /\ CountOf(after, last.key) = 0
            /\ KeysOfStore(after) = KeysOfStore(OthersOf(before, last.key))

\* C6: getItem(keys) returns one element per key, in input order: the stored
\* record with that key, or null when the store has no record with that key.
C6_GetItemPerKey ==
    last.op = "getItem" =>
        /\ Len(last.items) = Len(last.keys)
        /\ \A i \in 1..Len(last.keys) :
              IF CountOf(Persisted(last.parts), last.keys[i]) > 0
              THEN ~last.items[i].isNull /\ last.items[i].key = Str(last.keys[i])
              ELSE last.items[i] = Null

\* C12: a prune() directly after a completed prune(), with no slide list and
\* no store change in between, removes nothing and returns 0.
C12_PruneIdempotent ==
    [][(last.op = "prune" /\ Prune)
          => /\ last'.count = 0
             /\ Persisted(customXmlParts') = Persisted(customXmlParts)]_vars

\* A second prune() after one that removed records and kept others.
C12_Witness ==
    /\ last.op = "prune"
    /\ last.prev.op = "prune"
    /\ last.prev.count > 0
    /\ last.count = 0
    /\ Persisted(customXmlParts) # <<>>

---------------------------------------------------------------------------
(* Claims about the key list of a slide, under SpecSlides.  The list of a   *)
(* slide is the one the next request finds, Synced.                         *)

NoKeyTwice(list) == \A i, j \in 1..Len(list) : list[i] = list[j] => i = j

\* C7: addCitationKeyToSlide(k) leaves the list as it is when k is on it (so a
\* second call changes nothing), appends k at the end otherwise, and no slide
\* ever lists a key twice.
C7_AddIdempotent ==
    /\ \A s \in Slides : NoKeyTwice(ListOnSlide(Synced[s]))
    /\ last.op = "addCitationKeyToSlide" =>
          LET before == ListOnSlide(last.tag)
              after  == ListOnSlide(Synced[last.slide])
          IN  IF \E i \in 1..Len(before) : before[i] = last.key
              THEN after = before
              ELSE after = Append(before, last.key)

\* A second addCitationKeyToSlide(k) on a slide that lists k and another key.
C7_Witness ==
    /\ last.op = "addCitationKeyToSlide"
    /\ Len(ListOnSlide(last.tag)) = 2
    /\ ListOnSlide(last.tag)[1] = last.key

\* C8: removeCitationFromSlide(k) returns true iff k was on the list; the list
\* is then the old one without k, in the old order, and is the old one when
\* the result is false.
C8_RemoveFromSlide ==
    last.op = "removeCitationFromSlide" =>
        LET before == ListOnSlide(last.tag)
            after  == ListOnSlide(Synced[last.slide])
        IN  /\ last.ok <=> \E i \in 1..Len(before) : before[i] = last.key
            /\ after = Without(before, last.key)

\* The middle key of three is removed.
C8_Witness ==
    /\ last.op = "removeCitationFromSlide"
    /\ last.ok
    /\ Len(ListOnSlide(last.tag)) = 3
    /\ ListOnSlide(last.tag)[2] = last.key

\* C9: after updateCitationKeysOrder(perm) with perm a permutation of the keys
\* of the slide, getCitationKeysOnSlide returns exactly perm.
C9_ReorderKeepsKeys ==
    (last.op = "updateCitationKeysOrder" /\ last.perm # "no") =>
        /\ CitationKeysOf(Synced[last.slide]) = last.keys
        /\ ListOnSlide(Synced[last.slide]) = last.keys

\* Three keys are put in another order.
C9_Witness ==
    /\ last.op = "updateCitationKeysOrder"
    /\ last.perm = "moved"
    /\ Len(last.keys) = 3

\* C10: getCitationKeysOnSlide returns no empty key, and returns the empty list
\* for a slide without tag or with an empty tag; removing the last key of a
\* slide leaves the tag with the empty string as its value.
C10_EmptyList ==
    /\ last.op = "getCitationKeysOnSlide" =>
          /\ \A i \in 1..Len(last.list) : last.list[i] # ""
          /\ (last.tag.isNullObject \/ last.tag.value = <<>>) => last.list = <<>>
    /\ (last.op = "removeCitationFromSlide" /\ last.ok /\ Len(ListOnSlide(last.tag)) = 1) =>
          Synced[last.slide] = Tag(<<>>)

\* getCitationKeysOnSlide on a slide whose tag is the empty string.
C10_Witness ==
    /\ last.op = "getCitationKeysOnSlide"
    /\ ~last.tag.isNullObject
    /\ last.tag.value = <<>>
    /\ last.list = <<>>

---------------------------------------------------------------------------
(* Claims about calls awaited in turn, under SpecSerial *)

\* C13: with every call awaited before the next is issued, add(b) directly
\* after add(a) with another key leaves records for both keys in the store, and
\* addCitationKeyToSlide(k2) directly after addCitationKeyToSlide(k1) on the
\* same slide leaves both keys on that slide's list.
C13_NoLostUpdate ==
    [][/\ \A b \in Citations :
            (last.op = "add" /\ last.key # b.key /\ Add(b))
                => /\ CountOf(Persisted(customXmlParts'), last.key) > 0
                   /\ CountOf(Persisted(customXmlParts'), b.key) > 0
       /\ \A k2 \in Keys :
            (last.op = "addCitationKeyToSlide" /\ last.key # k2
                /\ AddCitationKeyToSlide(k2, last.slide))
                => /\ Includes(ListOnSlide(Synced'[last.slide]), last.key)
                   /\ Includes(ListOnSlide(Synced'[last.slide]), k2)]_vars

\* Two records with different keys were added and a second key has just been
\* added to a slide that listed another.
C13_Witness ==
    /\ \E i, j \in 1..Len(Persisted(customXmlParts)) :
           Persisted(customXmlParts)[i].key # Persisted(customXmlParts)[j].key
    /\ last.op = "addCitationKeyToSlide"
    /\ ListOnSlide(last.tag) # <<>>
    /\ ~Includes(ListOnSlide(last.tag), last.key)
    /\ Len(ListOnSlide(Synced[last.slide])) = Len(ListOnSlide(last.tag)) + 1

---------------------------------------------------------------------------
(* Claims about rendering, under SpecShow and SpecFormat *)

\* The texts of the segments, one after the other.
PiecesOf(segments) ==
    LET RECURSIVE Pieces(_)
        Pieces(segs) == IF segs = <<>> THEN <<>> ELSE segs[1].text \o Pieces(Tail(segs))
    IN  Pieces(segments)

\* C18: showCitationsOnSlide completes without failing on a slide that lists
\* keys without a record, and formats exactly the records that exist, in the
\* order of the slide's keys.
C18_MissingSkipped ==
    last.op = "showCitationsOnSlide" =>
        LET HasRecord(k) == CountOf(Persisted(last.parts), k) > 0
        IN  /\ last.outcome = "resolved"
            /\ last.rendered = SelectSeq(ListOnSlide(last.tag), HasRecord)

\* C19: in the segments written for a slide there is exactly one unstyled
\* delimiter segment between the segments of consecutive rendered citations
\* and none after the last, whatever keys the slide lists.
C19_DelimiterBetween ==
    (last.op = "showCitationsOnSlide" /\ last.ok) =>
        LET segs == last.segments
            IsDelimiter(i) == segs[i] = [text |-> <<last.delimiter>>,
                                         bold |-> FALSE, italic |-> FALSE]
            n == Len(last.rendered)
        IN  /\ Cardinality({i \in 1..Len(segs) : IsDelimiter(i)}) = IF n = 0 THEN 0 ELSE n - 1
            /\ segs # <<>> => ~IsDelimiter(1) /\ ~IsDelimiter(Len(segs))
            /\ \A i \in 1..(Len(segs) - 1) : ~(IsDelimiter(i) /\ IsDelimiter(i + 1))

\* C20: format of a record with exactly one creator completes without error,
\* and {creator} is replaced by that creator's display name alone.
C20_OneCreator ==
    (/\ last.op = "format"
     /\ last.item.creators.defined
     /\ Len(last.item.creators.items) = 1) =>
        /\ last.outcome = "resolved"
        /\ Includes(last.format, "{creator}") =>
              LET out == PiecesOf(last.segments)
              IN  /\ Includes(out, last.item.creators.items[1].lastName.s)
                  /\ ~Includes(out, " and ")
                  /\ ~Includes(out, " et al.")
                  /\ ~Includes(out, "{creator}")

---------------------------------------------------------------------------
(* The end-to-end scenario, under SpecScenario *)

\* C11: a record is inserted on a slide; rendering the slide, which lists that
\* key alone, with the template {title} gives the single segment holding the
\* record's title; after the key is removed from the slide, no other slide
\* listing it, and the sweep has run, getItem of the key returns [null].
C11_Scenario ==
    /\ (last.op = "showCitationsOnSlide" /\ ListOnSlide(last.tag) = <<calls[1].key>>) =>
          /\ last.outcome = "resolved"
          /\ \E i \in 1..Len(Persisted(last.parts)) :
                /\ Persisted(last.parts)[i].key = calls[1].key
                /\ last.segments = << [text   |-> <<Persisted(last.parts)[i].title>>,
                                       bold   |-> FALSE,
                                       italic |-> FALSE] >>
    /\ (last.op = "getItem" /\ calls[1].key \notin Referenced(Synced)) =>
          last.items = <<Null>>

---------------------------------------------------------------------------
(* Claims about calls that are not awaited, under SpecRace and SpecReads *)

\* The caller whose write was made last.
LastWriter == CHOOSE p \in Callers : \A q \in Callers : calls[q].turn <= calls[p].turn

\* C14: when two add calls, or two addCitationKeyToSlide calls on one slide,
\* with different keys were issued without awaiting and both have completed,
\* what later reads find is the whole block (the whole tag value) written by
\* the call that wrote last.
C14_LastWriterWins ==
    \A p, q \in Callers :
        (/\ p # q
         /\ calls[p].pc = "done" /\ calls[q].pc = "done"
         /\ calls[p].turn > 0 /\ calls[q].turn > 0
         /\ \A r \in Callers : calls[r].pc \in {"idle", "done"}) =>
            /\ (/\ calls[p].op = "add" /\ calls[q].op = "add"
                /\ calls[p].item.key # calls[q].item.key)
                  => Persisted(customXmlParts) = calls[LastWriter].wrote
            /\ (/\ calls[p].op = "addCitationKeyToSlide"
                /\ calls[q].op = "addCitationKeyToSlide"
                /\ calls[p].slide = calls[q].slide
                /\ calls[p].key # calls[q].key)
                  => Synced[calls[p].slide].value = calls[LastWriter].wrote

\* C15: reading calls running together leave the persisted state of the
\* document as it is, and each returns what it returns when it runs alone.
C15_ReadsLeaveState ==
    [][/\ customXmlParts' = customXmlParts
       /\ Synced' = Synced
       /\ \A p \in Callers :
            (calls'[p].pc = "done" /\ calls[p].pc # "done") =>
               LET alone == MapOf(GetCitationStoreXml(Persisted(customXmlParts)))
               IN  /\ calls'[p].op = "getAll" => calls'[p].items = alone
                   /\ calls'[p].op = "getItem" =>
                         calls'[p].items = [i \in 1..Len(calls'[p].keys) |->
                                               MapGet(alone, calls'[p].keys[i])]
                   /\ calls'[p].op = "getCitationKeysOnSlide" =>
                         calls'[p].citationKeys = ListOnSlide(Synced[calls'[p].slide])]_vars

---------------------------------------------------------------------------
(* Claims about rejected requests, under SpecFailures *)

\* C16: add, remove and prune never apply a part of their change: after a
\* call that was rejected the persisted parts are the ones before the call,
\* and a call that resolved made at most one save.
C16_NoPartialWrite ==
    last.op \in {"add", "remove", "prune"} =>
        /\ last.outcome = "rejected" => customXmlParts = last.parts
        /\ last.outcome = "resolved" => last.writes <= 1

\* C17: a call of add, remove, prune, addCitationKeyToSlide,
\* removeCitationFromSlide or updateCitationKeysOrder during which a request
\* was rejected is itself rejected, and has attempted at most one write.
C17_FailureRejects ==
    (/\ last.op \in {"add", "remove", "prune", "addCitationKeyToSlide",
                     "removeCitationFromSlide", "updateCitationKeysOrder"}
     /\ last.failed # "") =>
        /\ last.outcome = "rejected"
        /\ last.writes <= 1

---------------------------------------------------------------------------
(* Claims about the formatter, under SpecFormat *)

\* The display name of a creator: lastName, else name, else the placeholder.
DisplayName(creator) ==
    IF creator.lastName.t # "undefined" THEN creator.lastName.s
    ELSE IF creator.name.t # "undefined" THEN creator.name.s
    ELSE "Unknown"

\* run occurs in text as consecutive pieces.
ContainsRun(text, run) ==
    \E i \in 1..(Len(text) - Len(run) + 1) : SubSeq(text, i, i + Len(run) - 1) = run

\* C21: format of a record with exactly two creators completes, and {creator}
\* is replaced by "Name1 and Name2", the display names of the two creators.
C21_TwoCreators ==
    (/\ last.op = "format"
     /\ last.item.creators.defined
     /\ Len(last.item.creators.items) = 2) =>
        /\ last.outcome = "resolved"
        /\ Includes(last.format, "{creator}") =>
              ContainsRun(PiecesOf(last.segments),
                          <<DisplayName(last.item.creators.items[1]), " and ",
                            DisplayName(last.item.creators.items[2])>>)

\* C22: format of a record with three or more creators completes, and
\* {creator} is replaced by the display name of the first creator followed by
\* " et al.".
C22_EtAl ==
    (/\ last.op = "format"
     /\ last.item.creators.defined
     /\ Len(last.item.creators.items) >= 3) =>
        /\ last.outcome = "resolved"
        /\ Includes(last.format, "{creator}") =>
              /\ ContainsRun(PiecesOf(last.segments),
                             <<DisplayName(last.item.creators.items[1]), " et al.">>)
              /\ ~Includes(PiecesOf(last.segments), "{creator}")
              /\ ~Includes(PiecesOf(last.segments), " and ")

\* format of a record of three creators whose first has a name and no lastName.
C22_Witness ==
    /\ last.op = "format"
    /\ last.outcome = "resolved"
    /\ Len(last.item.creators.items) = 3
    /\ last.item.creators.items[1] = Creator(Absent, Str("WHO"))
    /\ last.format = <<"{creator}">>
    /\ PiecesOf(last.segments) = <<"WHO", " et al.">>

\* C23: format of a record without creators completes and replaces {creator}
\* by the fallback label, for the record as the caller holds it and for the
\* record as the store returns it after it was added.
C23_NoCreators ==
    (/\ last.op = "format"
     /\ \E c \in ShownCitations :
           /\ c.creators = <<>>
           /\ last.item \in {Some(Item(c)),
                             Some(NormalizeCitation(ParseCitation(BuildCitation(Item(c)))))}) =>
        /\ last.outcome = "resolved"
        /\ Includes(last.format, "{creator}") =>
              Includes(PiecesOf(last.segments), "Unknown")

C25_Toggle ==
    last.op = "parseFormattedText" =>
        LET text == last.format
            segs == last.segments
            IsText(piece) == piece \notin {"<b>", "</b>", "<i>", "</i>"}
            On(i, open, close) ==
                \E j \in 1..(i - 1) :
                    /\ text[j] = open
                    /\ \A k \in (j + 1)..(i - 1) : text[k] # close
            Places == {i \in 1..Len(text) : IsText(text[i])}
            Starts == {i \in Places : i = 1 \/ ~IsText(text[i - 1])}
            \* the segment that holds the piece at place i
            SegmentOf(i) == Cardinality({j \in Starts : j <= i})
        IN  /\ PiecesOf(segs) = SelectSeq(text, IsText)
            /\ Len(segs) = Cardinality(Starts)
            /\ \A n \in 1..Len(segs) : segs[n].text # <<>>
            /\ \A i \in Places :
                  /\ segs[SegmentOf(i)].bold   = On(i, "<b>", "</b>")
                  /\ segs[SegmentOf(i)].italic = On(i, "<i>", "</i>")

\* "<b>Foo</b>, 2020" gives Foo in bold and ", 2020" plain.
C25_Witness ==
    /\ last.op = "parseFormattedText"
    /\ last.format = <<"<b>", "Foo", "</b>", ", 2020">>
    /\ last.segments = << [text |-> <<"Foo">>,    bold |-> TRUE,  italic |-> FALSE],
                          [text |-> <<", 2020">>, bold |-> FALSE, italic |-> FALSE] >>

SupportedPlaceholders ==
    { "{creator}", "{#}", "{title}", "{year}", "{date}", "{journalAbbreviation}",
      "{publicationTitle}", "{key}", "{volume}", "{issue}", "{pages}", "{publisher}",
      "{itemType}", "{abstractNote}", "{DOI}", "{ISBN}", "{URL}", "{accessDate}",
      "{archive}", "{archiveLocation}", "{libraryCatalog}", "{callNumber}", "{rights}" }

\* C27: the output of format holds no supported placeholder, however often a
\* placeholder occurs in the template.
C27_AllSubstituted ==
    (last.op = "format" /\ last.outcome = "resolved") =>
        \A placeholder \in SupportedPlaceholders :
            ~Includes(PiecesOf(last.segments), placeholder)

---------------------------------------------------------------------------
(* Claims about the configuration, under SpecConfig *)

\* Citation formats with an entry that is no object, whose format is missing
\* or no string, or whose delimiter is there and no string.
Malformed(formats) ==
    /\ formats.kind = "object"
    /\ \E i \in 1..Len(formats.entries) :
          LET entry == formats.entries[i].value
          IN  \/ entry.kind # "object"
              \/ entry.format.t # "string"
              \/ entry.delimiter.t \notin {"undefined", "string"}

\* C28: a call of updateConfig or setConfig for a configuration whose citation
\* formats are malformed is rejected, and leaves the configuration in memory
\* and the stored settings as they are.
C28_MalformedRejected ==
    [][(last'.op \in {"updateConfig", "setConfig"} /\ Malformed(last'.citationFormats))
          => /\ last'.outcome = "rejected"
             /\ zoteroConfig' = zoteroConfig
             /\ localStorage' = localStorage]_vars

---------------------------------------------------------------------------
(* Claims about clearStore and about number-like keys, under SpecStore *)

\* C29: clearStore leaves no part and the tags of the slides as they are; a
\* getAll that follows it returns no record and a getItem null for every key;
\* after an add that follows it getItem of the added key returns the record.
C29_ClearStore ==
    [][/\ last'.op = "clearStore" => (customXmlParts' = <<>> /\ tags' = tags)
       /\ (last.op = "clearStore" /\ last'.op = "getAll") => last'.items = <<>>
       /\ (last.op = "clearStore" /\ last'.op = "getItem")
             => \A i \in 1..Len(last'.items) : last'.items[i] = Null
       /\ (last.op = "add" /\ last.prev.op = "clearStore"
             /\ last'.op = "getItem" /\ last'.keys = <<last.key>>)
             => last'.items = <<last.item>>]_vars

\* The keys of the model that the parser reads back as numbers.
NumberLikeKeys == Keys \cap NumberLike

\* C30: for a key the parser reads back as a number, add leaves one record of
\* the key, remove leaves none and tells whether there was one, getItem finds
\* the record exactly when there is one, and prune keeps the record exactly
\* when a slide lists the key.
C30_StringKeys ==
    [][\A k \in NumberLikeKeys :
         LET before == CountOf(Persisted(customXmlParts), k)
             after  == CountOf(Persisted(customXmlParts'), k)
         IN  /\ (last'.op = "add" /\ last'.key = k /\ last' # last) => after = 1
             /\ (last'.op = "remove" /\ last'.key = k /\ last' # last)
                   => (after = 0 /\ last'.ok = (before > 0))
             /\ (last'.op = "getItem" /\ last' # last)
                   => \A i \in 1..Len(last'.keys) :
                         last'.keys[i] = k => ((last'.items[i] # Null) = (before > 0))
             /\ (last'.op = "prune" /\ last' # last)
                   => after = IF k \in UsedKeys(tags) THEN before ELSE 0]_vars

---------------------------------------------------------------------------
(* Claims about loading the store, under SpecStore *)

\* C31: whatever part the document holds, getCitationStoreXml returns a list
\* with one record for each stored record, and the creators field of every
\* record of the list is an array.
C31_Sequences ==
    \A n \in 1..Len(customXmlParts) :
        LET storeXml == GetCitationStoreXml(customXmlParts[n])
        IN  /\ Len(storeXml) = Len(customXmlParts[n])
            /\ \A i \in 1..Len(storeXml) : storeXml[i].creators.defined

---------------------------------------------------------------------------
(* Claims about prune, under SpecStore *)

\* Every record of the store is listed by some slide.
AllReferenced(store, t) ==
    \A i \in 1..Len(store) : store[i].key \in Referenced(t)

\* C32: a prune() that finds every stored record listed by some slide writes
\* nothing to the part, leaves its records as they are and returns 0.
C32_NoWriteWhenSame ==
    (last.op = "prune" /\ AllReferenced(Persisted(last.parts), tags))
        => /\ last.writes = 0
           /\ last.count = 0
           /\ Persisted(customXmlParts) = Persisted(last.parts)

---------------------------------------------------------------------------
(* Claims about the citation part, under SpecRace *)

\* C33: the document holds at most one part with the citation namespace, also
\* while and after calls that were issued together find that there is none.
C33_OneBlock == Len(customXmlParts) <= 1

---------------------------------------------------------------------------
(* Claims about the tag write of a slide call, under SpecSlides *)

\* C34: when addCitationKeyToSlide has resolved the tag of its slide lists the
\* key, and when removeCitationFromSlide has resolved with true the tag of its
\* slide does not list it: the write has been applied, it is not in flight.
C34_WritePersisted ==
    /\ (last.op = "addCitationKeyToSlide" /\ last.outcome = "resolved")
          => Includes(CitationKeysOf(tags[last.slide]), last.key)
    /\ (last.op = "removeCitationFromSlide" /\ last.outcome = "resolved" /\ last.ok)
          => ~Includes(CitationKeysOf(tags[last.slide]), last.key)

---------------------------------------------------------------------------
(* Claims about insertCitationOnSlide, under SpecInsert and                 *)
(* SpecInsertFailures                                                       *)

\* Caller p has a resolved insertCitationOnSlide and nothing is pending: no
\* prune() in progress, no write in flight.
InsertSettled(p) ==
    /\ calls[p].op = "insertCitationOnSlide"
    /\ calls[p].pc = "done"
    /\ pruning = <<>>
    /\ inflight = <<>>

\* C35: when insertCitationOnSlide(c) has resolved and everything that was
\* started un-awaited has finished, the store holds a record with the key of
\* c and the slide of the call lists the key.
C35_InsertSurvives ==
    \A p \in Callers :
        InsertSettled(p) =>
            /\ CountOf(Persisted(customXmlParts), calls[p].key) > 0
            /\ Includes(CitationKeysOf(tags[calls[p].slide]), calls[p].key)

\* C36: under SpecInsertFailures.  When the add of insertCitationOnSlide is
\* rejected the call is rejected and the key list of every slide stays as it
\* is, then and afterwards; the key is attached only after the add has written
\* a record with it; and when the call resolves with the key on its slide the
\* store holds a record with the key.
C36_AddBeforeKey ==
    [][\A p \in Callers :
          /\ (calls[p].pc = "add" /\ calls'[p].pc # "add" /\ last'.outcome = "rejected")
                => (calls'[p].pc = "failed" /\ Drain(tags', inflight') = Synced)
          /\ calls[p].pc = "failed" => Drain(tags', inflight') = Synced
          /\ (calls[p].pc = "key" /\ calls'[p].pc # "key")
                => CountOf(calls[p].wrote, calls[p].key) > 0
          /\ (calls[p].pc = "key" /\ calls'[p].pc = "done"
                /\ Includes(CitationKeysOf(Drain(tags', inflight')[calls[p].slide]), calls[p].key))
                => CountOf(Persisted(customXmlParts'), calls[p].key) > 0]_vars

\* An insertCitationOnSlide rejected because the save of its add was.
C36_Witness ==
    /\ calls[1].op = "insertCitationOnSlide"
    /\ calls[1].pc = "failed"
    /\ last.op = "add"
    /\ last.outcome = "rejected"
    /\ last.failed = "save"
    /\ ~Includes(CitationKeysOf(Synced[calls[1].slide]), calls[1].key)

---------------------------------------------------------------------------
(* Claims about the numbers of rendered citations, under SpecShow *)

\* The numbers written for {#} in segments: the pieces that are the decimal
\* text of a place on a slide (no key and no title of the model is one).
NumbersIn(segments) ==
    LET IsNumber(piece) == \E i \in 1..(MaxSlideKeys + 1) : piece = ToString(i)
    IN  SelectSeq(PiecesOf(segments), IsNumber)

\* C37: the numbers written for {#} on a slide are 1, 2, .., n in this order
\* for the n citations rendered, whatever keys of the slide have no record.
C37_ConsecutiveNumbers ==
    (last.op = "showCitationsOnSlide" /\ last.ok /\ Includes(last.format, "{#}")) =>
        NumbersIn(last.segments) = [i \in 1..Len(last.rendered) |-> ToString(i)]

---------------------------------------------------------------------------
(* Claims about reordering in the task pane, under SpecReorder *)

\* C38: a drag in the task pane leaves on the slide the keys it found there,
\* each as often as before, in whatever order.
C38_ReorderKeepsKeys ==
    last.op = "reorderCitations" =>
        IsPermutation(CitationKeysOf(tags[last.slide]), CitationKeysOf(last.tag))

\* C39: getCitationFormat returns a format specification whose format is a
\* string, whatever the configuration: none, one without citation formats,
\* one whose selected name is no configured format, one with a valid choice.
C39_FormatAlways ==
    last.op = "getCitationFormat" =>
        (last.spec.kind = "object" /\ last.spec.format.t = "string")

---------------------------------------------------------------------------
(* Claims about parseFormattedText, under SpecFormat *)

\* C40: the texts of the segments parseFormattedText returns, one after the
\* other, are its input without the tags <b>, </b>, <i> and </i>, and no
\* segment has an empty text.
C40_ParseKeepsText ==
    last.op = "parseFormattedText" =>
        LET NoTag(piece) == piece \notin FormatTags
        IN  /\ PiecesOf(last.segments) = SelectSeq(last.format, NoTag)
            /\ \A i \in 1..Len(last.segments) : last.segments[i].text # <<>>

\* A text that opens with two tags and closes one after its only words.
C40_Witness ==
    /\ last.op = "parseFormattedText"
    /\ last.format = <<"<b>", "<i>", "Foo", "</b>">>
    /\ last.segments = <<FormattedText(<<"Foo">>, TRUE, TRUE)>>

====
